---- MODULE Spec2Model ----
(***************************************************************************)
(* BetterADBSync: the tree diff engine (FileSyncer.diff_trees), the pruner *)
(* and the executor (FileSystem.remove_tree / push_tree_here) as run by    *)
(* main(), over small snapshot trees.                                      *)
(*                                                                         *)
(* Strings that the program inspects character by character (paths and     *)
(* exclusion patterns) are sequences of one-character strings.  A snapshot *)
(* tree (None | tuple | dict in the source) is a record                    *)
(*   [kind |-> "None" | "File" | "Dir", st, ch]                            *)
(* where st is the (atime, mtime, size) tuple of a file, or the value of   *)
(* the "." key of a dict (NoSelf when "." is missing or None), and ch maps *)
(* every name to the child stored under that key (Absent when the key is   *)
(* missing or holds None; the code treats both alike).                     *)
(*                                                                         *)
(* Runs are modelled without --copy-to-new-folder and without --show-tree. *)
(***************************************************************************)
EXTENDS Integers, Sequences, FiniteSets, TLC

VARIABLES
    files_tree_source,       \* snapshot of the source (main, line 456)
    files_tree_destination,  \* snapshot of the destination (line 468/476)
    args_exclude,            \* args.exclude: list of patterns
    dry_run, force,          \* args.dry_run, args.force
    delete, delete_excluded, \* args.delete, args.delete_excluded
    direction,               \* args.direction: "push" (remote destination) | "pull" (local)
    pc,                      \* position of main()
    trees,                   \* the pruned partitions main() keeps after diffing
    ops,                     \* trace of the operations issued on the destination
    dfs,                     \* destination filesystem: path -> entry
    todo,                    \* leaves and directories push_tree_here has still to visit
    copied_files,            \* FileSystem.copied_files
    args_paths,              \* the source and destination arguments as given
    roots,                   \* path_source and path_destination as main() resolves them
    channel,                 \* the adb shell process: its stdin, its stdout, whether it runs
    calls,                   \* adb_shell calls: suspended generators and returned replies
    pruning,                 \* a tree, and prune_tree applied to it once and twice
    copy_links,              \* args.copy_links
    fsrc,                    \* the filesystems the snapshots are taken of
    built,                   \* what get_files_tree raised for each side
    listing,                 \* a reply to ls: its lines, and what the parser made of them
    walk                     \* the calls of _get_files_tree in progress, and what they found

vars == <<files_tree_source, files_tree_destination, args_exclude, dry_run, force,
          delete, delete_excluded, direction, pc, trees, ops, dfs, todo,
          copied_files, args_paths, roots,
                   channel, calls, pruning, copy_links, fsrc, built, listing, walk>>

(***************************************************************************)
(* Bounds of the model.                                                    *)
(***************************************************************************)
MaxMinute == 1   \* file times are 0 .. MaxMinute minutes
MaxSize == 2     \* file sizes are 1 .. MaxSize bytes

NameSet == {"a", "b"}
Names == <<"a", "b">>          \* the keys in the order sort_tree leaves them

(***************************************************************************)
(* Tree values.                                                            *)
(***************************************************************************)
NoSelf == <<>>
NoChildren == <<>>
Absent == [kind |-> "None", st |-> NoSelf, ch |-> NoChildren]
File(st) == [kind |-> "File", st |-> st, ch |-> NoChildren]
Dir(self, ch) == [kind |-> "Dir", st |-> self, ch |-> ch]

IsNone(t) == t.kind = "None"
IsTuple(t) == t.kind = "File"
IsDict(t) == t.kind = "Dir"

Child(t, k) == IF IsDict(t) THEN t.ch[k] ELSE Absent

(***************************************************************************)
(* Strings: os.path.join, os.path.normpath (posix), fnmatch.fnmatch.       *)
(***************************************************************************)
RECURSIVE SplitSlash(_)
SplitSlash(s) ==
    \* s.split("/")
    IF s = <<>> THEN << <<>> >>
    ELSE LET rest == SplitSlash(Tail(s))
         IN IF Head(s) = "/" THEN << <<>> >> \o rest
            ELSE << <<Head(s)>> \o Head(rest) >> \o Tail(rest)

RECURSIVE JoinSlash(_)
JoinSlash(comps) ==
    \* "/".join(comps)
    IF comps = <<>> THEN <<>>
    ELSE IF Len(comps) = 1 THEN comps[1]
    ELSE comps[1] \o <<"/">> \o JoinSlash(Tail(comps))

RECURSIVE NormComps(_, _, _)
NormComps(comps, new_comps, initial_slashes) ==
    IF comps = <<>> THEN new_comps
    ELSE LET comp == Head(comps)
             n == Len(new_comps)
         IN IF comp = <<>> \/ comp = <<".">>
            THEN NormComps(Tail(comps), new_comps, initial_slashes)
            ELSE IF \/ comp # <<".", ".">>
                    \/ (initial_slashes = 0 /\ n = 0)
                    \/ (n > 0 /\ new_comps[n] = <<".", ".">>)
            THEN NormComps(Tail(comps), Append(new_comps, comp), initial_slashes)
            ELSE IF n > 0
            THEN NormComps(Tail(comps), SubSeq(new_comps, 1, n - 1), initial_slashes)
            ELSE NormComps(Tail(comps), new_comps, initial_slashes)

normpath(path) ==
    IF path = <<>> THEN <<".">>
    ELSE LET starts(n) == Len(path) >= n /\ \A i \in 1..n : path[i] = "/"
             initial_slashes == IF ~starts(1) THEN 0
                                ELSE IF starts(2) /\ ~starts(3) THEN 2 ELSE 1
             body == JoinSlash(NormComps(SplitSlash(path), <<>>, initial_slashes))
             res == [i \in 1..initial_slashes |-> "/"] \o body
         IN IF res = <<>> THEN <<".">> ELSE res

join(base, leaf) ==
    IF leaf # <<>> /\ Head(leaf) = "/" THEN leaf
    ELSE IF base = <<>> \/ base[Len(base)] = "/" THEN base \o leaf
    ELSE base \o <<"/">> \o leaf

RECURSIVE fnmatch(_, _)
fnmatch(name, pat) ==
    IF pat = <<>> THEN name = <<>>
    ELSE IF Head(pat) = "*"
    THEN fnmatch(name, Tail(pat)) \/ (name # <<>> /\ fnmatch(Tail(name), pat))
    ELSE /\ name # <<>>
         /\ (Head(pat) = "?" \/ Head(pat) = Head(name))
         /\ fnmatch(Tail(name), Tail(pat))

(***************************************************************************)
(* FileSyncer.diff_trees.  The result is [fatal |-> TRUE] with every       *)
(* partition Absent when logging_fatal ended the process inside the call,  *)
(* and the five returned partitions otherwise.  path_source only feeds log *)
(* messages and is not threaded through.                                   *)
(***************************************************************************)
Partitions(d, c, es, ud, ed) ==
    [fatal |-> FALSE, delete |-> d, copy |-> c, excluded_source |-> es,
     unaccounted_destination |-> ud, excluded_destination |-> ed]

Fatal ==
    [fatal |-> TRUE, delete |-> Absent, copy |-> Absent, excluded_source |-> Absent,
     unaccounted_destination |-> Absent, excluded_destination |-> Absent]

Excluded(path_dest, destination_exclude_patterns) ==
    \E i \in DOMAIN destination_exclude_patterns :
        fnmatch(path_dest, destination_exclude_patterns[i])

\* variant: a source as old as the destination counts as newer
FileFile_NewerOrEqual(source, destination) ==
    IF source.st[2] >= destination.st[2]
    THEN Partitions(destination, source, Absent, Absent, Absent)
    ELSE IF source.st[3] # destination.st[3]
    THEN Partitions(destination, source, Absent, Absent, Absent)
    ELSE Partitions(Absent, Absent, Absent, Absent, Absent)

\* variant: a file present on both sides is always copied again
FileFile_Always(source, destination) ==
    Partitions(destination, source, Absent, Absent, Absent)

\* variant: only a size mismatch selects a file, the times are not compared
FileFile_SizeOnly(source, destination) ==
    IF source.st[3] # destination.st[3]
    THEN Partitions(destination, source, Absent, Absent, Absent)
    ELSE Partitions(Absent, Absent, Absent, Absent, Absent)

\* both sides are files and the path is not excluded (lines 140-157)
FileFile(source, destination) ==
    IF source.st[2] > destination.st[2]
    THEN Partitions(destination, source, Absent, Absent, Absent)
    ELSE IF source.st[3] # destination.st[3]
    THEN Partitions(destination, source, Absent, Absent, Absent)
    ELSE Partitions(Absent, Absent, Absent, Absent, Absent)

\* variant: the overwrite error is raised before exclusion is looked at
FileDir_ErrorFirst(source, destination, exclude, overwrite_error) ==
    IF overwrite_error
    THEN Fatal
    ELSE IF exclude
    THEN Partitions(Dir(NoSelf, [k \in NameSet |-> Absent]), Absent, source,
                    Dir(NoSelf, [k \in NameSet |-> Absent]), destination)
    ELSE Partitions(destination, source, Absent,
                    Dir(NoSelf, [k \in NameSet |-> Absent]),
                    Dir(NoSelf, [k \in NameSet |-> Absent]))

\* variant: a forced overwrite selects the directory itself but not its children
FileDir_SelfOnly(source, destination, exclude, overwrite_error) ==
    IF exclude
    THEN Partitions(Dir(NoSelf, [k \in NameSet |-> Absent]), Absent, source,
                    Dir(NoSelf, [k \in NameSet |-> Absent]), destination)
    ELSE IF overwrite_error
    THEN Fatal
    ELSE Partitions(Dir(destination.st, [k \in NameSet |-> Absent]), source, Absent,
                    Dir(NoSelf, [k \in NameSet |-> Absent]),
                    Dir(NoSelf, [k \in NameSet |-> Absent]))

\* variant: the overwritten directory is also reported as excluded
FileDir_AlsoExcluded(source, destination, exclude, overwrite_error) ==
    IF exclude
    THEN Partitions(Dir(NoSelf, [k \in NameSet |-> Absent]), Absent, source,
                    Dir(NoSelf, [k \in NameSet |-> Absent]), destination)
    ELSE IF overwrite_error
    THEN Fatal
    ELSE Partitions(destination, source, Absent,
                    Dir(NoSelf, [k \in NameSet |-> Absent]), destination)

\* source file, destination directory (lines 158-179)
FileDir(source, destination, exclude, overwrite_error) ==
    IF exclude
    THEN Partitions(Dir(NoSelf, [k \in NameSet |-> Absent]), Absent, source,
                    Dir(NoSelf, [k \in NameSet |-> Absent]), destination)
    ELSE IF overwrite_error
    THEN Fatal
    ELSE Partitions(destination, source, Absent,
                    Dir(NoSelf, [k \in NameSet |-> Absent]),
                    Dir(NoSelf, [k \in NameSet |-> Absent]))

RECURSIVE diff_trees(_, _, _, _, _)
diff_trees(source, destination, path_dest, destination_exclude_patterns, overwrite_error) ==
    LET exclude == Excluded(path_dest, destination_exclude_patterns)
        none == Absent
        empty == Dir(NoSelf, [k \in NameSet |-> Absent])
        sub == [k \in NameSet |->
                   diff_trees(Child(source, k), Child(destination, k),
                              join(path_dest, <<k>>),
                              destination_exclude_patterns,
                              overwrite_error)]
        subfatal == \E k \in NameSet : sub[k].fatal
    IN
    IF IsNone(source) THEN
        IF IsNone(destination) THEN Partitions(none, none, none, none, none)
        ELSE IF IsTuple(destination) THEN
            IF exclude THEN Partitions(none, none, none, none, destination)
            ELSE Partitions(none, none, none, destination, none)
        ELSE
            IF exclude THEN Partitions(empty, none, none, empty, destination)
            ELSE IF subfatal THEN Fatal
            ELSE Partitions(
                    Dir(NoSelf, [k \in NameSet |-> sub[k].delete]),
                    none, none,
                    Dir(destination.st, [k \in NameSet |-> sub[k].unaccounted_destination]),
                    Dir(NoSelf, [k \in NameSet |-> sub[k].excluded_destination]))
    ELSE IF IsTuple(source) THEN
        IF IsNone(destination) THEN
            IF exclude THEN Partitions(none, none, source, none, none)
            ELSE Partitions(none, source, none, none, none)
        ELSE IF IsTuple(destination) THEN
            IF exclude THEN Partitions(none, none, source, none, destination)
            ELSE FileFile(source, destination)
        ELSE FileDir(source, destination, exclude, overwrite_error)
    ELSE
        IF IsNone(destination) THEN
            IF exclude THEN Partitions(none, empty, source, none, none)
            ELSE IF subfatal THEN Fatal
            ELSE Partitions(
                    none,
                    Dir(source.st, [k \in NameSet |-> sub[k].copy]),
                    Dir(NoSelf, [k \in NameSet |-> sub[k].excluded_source]),
                    none, none)
        ELSE IF IsTuple(destination) THEN
            \* line 243 resets excluded_destination on both branches
            IF exclude THEN Partitions(none, empty, source, none, none)
            ELSE LET below == [k \in NameSet |->
                                  diff_trees(Child(source, k), Absent,
                                             join(path_dest, <<k>>),
                                             destination_exclude_patterns,
                                             overwrite_error)]
                 IN IF (\E k \in NameSet : below[k].fatal) \/ overwrite_error
                    THEN Fatal
                    ELSE Partitions(
                            destination,
                            Dir(source.st, [k \in NameSet |-> below[k].copy]),
                            Dir(NoSelf, [k \in NameSet |-> below[k].excluded_source]),
                            none, none)
        ELSE
            IF exclude THEN Partitions(empty, empty, source, empty, destination)
            ELSE IF subfatal THEN Fatal
            ELSE Partitions(
                    Dir(NoSelf, [k \in NameSet |-> sub[k].delete]),
                    Dir(NoSelf, [k \in NameSet |-> sub[k].copy]),
                    Dir(NoSelf, [k \in NameSet |-> sub[k].excluded_source]),
                    Dir(NoSelf, [k \in NameSet |-> sub[k].unaccounted_destination]),
                    Dir(NoSelf, [k \in NameSet |-> sub[k].excluded_destination]))

RECURSIVE prune_tree(_)
prune_tree(tree) ==
    IF ~IsDict(tree) THEN tree
    ELSE LET return_dict == [k \in NameSet |-> prune_tree(tree.ch[k])]
         IN IF tree.st = NoSelf /\ \A k \in NameSet : IsNone(return_dict[k])
            THEN Absent
            ELSE Dir(tree.st, return_dict)

RECURSIVE remove_excluded_KeepingSelf(_, _)
\* variant: the "." entry of a directory above an excluded entry is kept
remove_excluded_KeepingSelf(unaccounted, excluded) ==
    IF IsNone(excluded) THEN unaccounted
    ELSE Dir(unaccounted.st,
             [k \in NameSet |->
                 IF IsNone(Child(unaccounted, k)) THEN Absent
                 ELSE remove_excluded_KeepingSelf(
                          Child(unaccounted, k), Child(excluded, k))])

RECURSIVE remove_excluded_folders_from_unaccounted_tree(_, _)
remove_excluded_folders_from_unaccounted_tree(unaccounted, excluded) ==
    IF IsNone(excluded) THEN unaccounted
    ELSE Dir(NoSelf,
             [k \in NameSet |->
                 IF IsNone(Child(unaccounted, k)) THEN Absent
                 ELSE remove_excluded_folders_from_unaccounted_tree(
                          Child(unaccounted, k), Child(excluded, k))])

(***************************************************************************)
(* The destination filesystem: a function from the paths that exist to     *)
(* [kind |-> "reg" | "dir" | "partial", st].  "partial" is a file whose    *)
(* transfer did not complete.                                              *)
(***************************************************************************)
Op(op, path, arg) == [op |-> op, path |-> path, arg |-> arg]

IsPrefix(p, q) == Len(p) <= Len(q) /\ SubSeq(q, 1, Len(p)) = p
Under(dir, q) == IsPrefix(dir \o <<"/">>, q)          \* q lies below dir
Without(fs, gone) == [q \in DOMAIN fs \ gone |-> fs[q]]
With(fs, path, entry) == [q \in DOMAIN fs \cup {path} |-> IF q = path THEN entry ELSE fs[q]]

RECURSIVE rstripSlash(_)
rstripSlash(s) ==
    IF s # <<>> /\ s[Len(s)] = "/" THEN rstripSlash(SubSeq(s, 1, Len(s) - 1)) ELSE s

\* posixpath.split: the text up to the last "/" (without trailing slashes,
\* unless it is all slashes) and the text after it
SlashAt(path) ==
    LET at == {i \in DOMAIN path : path[i] = "/"}
    IN IF at = {} THEN 0 ELSE CHOOSE i \in at : \A j \in at : j <= i
dirname(path) ==
    LET head == SubSeq(path, 1, SlashAt(path))
    IN IF rstripSlash(head) = <<>> THEN head ELSE rstripSlash(head)
basename(path) == SubSeq(path, SlashAt(path) + 1, Len(path))

RECURSIVE Ancestors(_)
Ancestors(path) ==
    \* path and every directory above it, below "/" or the working directory
    IF rstripSlash(path) = <<>> THEN {}
    ELSE {path} \cup Ancestors(dirname(path))

RECURSIVE PathsOf(_, _)
PathsOf(tree, path) ==
    IF IsNone(tree) THEN {}
    ELSE {path} \cup UNION {PathsOf(Child(tree, k), join(path, <<k>>)) : k \in NameSet}

RECURSIVE Lookup(_, _, _)
Lookup(tree, root, path) ==
    \* the node of tree (rooted at root) that lies at path
    IF path = root THEN tree
    ELSE IF \E k \in NameSet : IsPrefix(join(root, <<k>>), path) /\
                               (join(root, <<k>>) = path \/ Under(join(root, <<k>>), path))
    THEN LET k == CHOOSE k \in NameSet :
                      IsPrefix(join(root, <<k>>), path) /\
                      (join(root, <<k>>) = path \/ Under(join(root, <<k>>), path))
         IN Lookup(Child(tree, k), join(root, <<k>>), path)
    ELSE Absent

FsOf(tree, root) ==
    [q \in PathsOf(tree, root) |->
        LET n == Lookup(tree, root, q)
        IN [kind |-> IF IsDict(n) THEN "dir" ELSE "reg", st |-> n.st]]

\* LocalFileSystem (FileSystems/Local.py)
LocalExists(fs, path) == path \in DOMAIN fs
LocalUnlinkRaises(fs, path) == LocalExists(fs, path) /\ fs[path].kind = "dir"
LocalUnlink(fs, path) ==
    IF LocalExists(fs, path) /\ ~LocalUnlinkRaises(fs, path) THEN Without(fs, {path}) ELSE fs
LocalRmdirRaises(fs, path) ==
    \* os.rmdir on a file or on a directory that is not empty
    /\ LocalExists(fs, path)
    /\ (fs[path].kind # "dir" \/ \E q \in DOMAIN fs : Under(path, q))
LocalRmdir(fs, path) ==
    IF LocalExists(fs, path) /\ ~LocalRmdirRaises(fs, path) THEN Without(fs, {path}) ELSE fs

\* AndroidFileSystem (FileSystems/Android.py): run, exists, unlink, rmdir
AndroidShell(fs, command) ==
    \* the effect on the device of the commands the model issues
    IF Len(command) = 3 /\ command[1] = "rm" /\ command[2] = "-r"
    THEN Without(fs, {q \in DOMAIN fs : q = command[3] \/ Under(command[3], q)})
    ELSE IF Len(command) = 2 /\ command[1] = "rm"
    THEN IF command[2] \in DOMAIN fs /\ fs[command[2]].kind # "dir"
         THEN Without(fs, {command[2]}) ELSE fs
    ELSE fs
run(fs, command) ==
    \* subprocess.check_output(..., shell=True); CalledProcessError (such as
    \* command not found) leaves the device untouched
    IF Len(command) >= 2 /\ command[1] = "adb" /\ command[2] = "shell"
    THEN AndroidShell(fs, SubSeq(command, 3, Len(command)))
    ELSE fs
AndroidExists(fs, path) ==
    \* bool(output of "adb shell ls path"): a missing path gives a non-zero
    \* exit (None), a directory without entries gives empty output
    /\ path \in DOMAIN fs
    /\ (fs[path].kind = "dir" => \E q \in DOMAIN fs : Under(path, q))
AndroidUnlink(fs, path) ==
    IF AndroidExists(fs, path) THEN run(fs, <<"adbshell", "rm", path>>) ELSE fs
AndroidRmdir(fs, path) ==
    IF AndroidExists(fs, path) THEN run(fs, <<"adb", "shell", "rm", "-r", path>>) ELSE fs

\* dispatch on the destination filesystem (main, lines 434-443)
DestinationIsLocal(dir) == dir = "pull"
unlink(fs, path, dir) ==
    IF DestinationIsLocal(dir) THEN LocalUnlink(fs, path) ELSE AndroidUnlink(fs, path)
rmdir(fs, path, dir) ==
    IF DestinationIsLocal(dir) THEN LocalRmdir(fs, path) ELSE AndroidRmdir(fs, path)
MakedirsFails(fs, path) ==
    \* os.makedirs raises FileExistsError / mkdir -p prints an error line,
    \* which line_not_captured turns into a fatal error
    \E q \in Ancestors(path) : q \in DOMAIN fs /\ fs[q].kind # "dir"
makedirs(fs, path) ==
    IF MakedirsFails(fs, path) THEN fs
    ELSE [q \in DOMAIN fs \cup Ancestors(path) |->
             IF q \in DOMAIN fs THEN fs[q] ELSE [kind |-> "dir", st |-> <<0, 0, 0>>]]

\* where the transfer primitive writes: adb push / pull onto an existing
\* directory places the file inside it, under the source's base name
Target(fs, source_path, destination_path) ==
    IF destination_path \in DOMAIN fs /\ fs[destination_path].kind = "dir"
    THEN join(destination_path, basename(source_path))
    ELSE destination_path

ApplyOp(fs, o, dir) ==
    IF o.op = "unlink" THEN unlink(fs, o.path, dir)
    ELSE IF o.op = "rmdir" THEN rmdir(fs, o.path, dir)
    ELSE IF o.op = "makedirs" THEN makedirs(fs, o.path)
    ELSE fs

OpRaises(fs, o, dir) ==
    \/ o.op = "unlink" /\ DestinationIsLocal(dir) /\ LocalUnlinkRaises(fs, o.path)
    \/ o.op = "rmdir" /\ DestinationIsLocal(dir) /\ LocalRmdirRaises(fs, o.path)
    \/ o.op = "makedirs" /\ MakedirsFails(fs, o.path)

RECURSIVE Issue(_, _, _, _)
Issue(fs, seq, dir, issued) ==
    \* the operations of seq issued in order until one raises
    IF seq = <<>> THEN [fs |-> fs, ok |-> TRUE, issued |-> issued]
    ELSE IF OpRaises(fs, Head(seq), dir)
    THEN [fs |-> fs, ok |-> FALSE, issued |-> Append(issued, Head(seq))]
    ELSE Issue(ApplyOp(fs, Head(seq), dir), Tail(seq), dir, Append(issued, Head(seq)))

(***************************************************************************)
(* FileSystem.remove_tree and FileSystem.push_tree_here: the operations    *)
(* they issue, in order.                                                   *)
(***************************************************************************)
\* a variant that removes a directory before what it holds
RECURSIVE remove_tree_PreOrder(_, _, _)
remove_tree_PreOrder(tree_path, tree, dry) ==
    IF IsNone(tree) THEN <<>>
    ELSE IF IsTuple(tree)
    THEN IF dry THEN <<>> ELSE <<Op("unlink", tree_path, <<>>)>>
    ELSE LET RECURSIVE below(_)
             below(i) ==
                 IF i > Len(Names) THEN <<>>
                 ELSE remove_tree_PreOrder(normpath(join(tree_path, <<Names[i]>>)),
                                           tree.ch[Names[i]], dry) \o below(i + 1)
             remove_folder == tree.st # NoSelf
         IN (IF remove_folder /\ ~dry THEN <<Op("rmdir", tree_path, <<>>)>> ELSE <<>>)
            \o below(1)

RECURSIVE remove_tree(_, _, _)
remove_tree(tree_path, tree, dry) ==
    IF IsNone(tree) THEN <<>>
    ELSE IF IsTuple(tree)
    THEN IF dry THEN <<>> ELSE <<Op("unlink", tree_path, <<>>)>>
    ELSE LET RECURSIVE below(_)
             below(i) ==
                 IF i > Len(Names) THEN <<>>
                 ELSE remove_tree(normpath(join(tree_path, <<Names[i]>>)),
                                  tree.ch[Names[i]], dry) \o below(i + 1)
             remove_folder == tree.st # NoSelf
         IN below(1) \o
            (IF remove_folder /\ ~dry THEN <<Op("rmdir", tree_path, <<>>)>> ELSE <<>>)

\* a variant that visits a directory after what it holds
RECURSIVE push_tree_here_PostOrder(_, _, _)
push_tree_here_PostOrder(tree_path, tree, destination_root) ==
    IF IsNone(tree) THEN <<>>
    ELSE IF IsTuple(tree)
    THEN << [kind |-> "file", src |-> tree_path, dst |-> destination_root, st |-> tree.st] >>
    ELSE LET RECURSIVE below(_)
             below(i) ==
                 IF i > Len(Names) THEN <<>>
                 ELSE push_tree_here_PostOrder(normpath(join(tree_path, <<Names[i]>>)),
                                               tree.ch[Names[i]],
                                               normpath(join(destination_root, <<Names[i]>>)))
                      \o below(i + 1)
         IN below(1) \o
            (IF tree.st # NoSelf
             THEN << [kind |-> "dir", src |-> tree_path, dst |-> destination_root, st |-> tree.st] >>
             ELSE <<>>)

RECURSIVE push_tree_here(_, _, _)
push_tree_here(tree_path, tree, destination_root) ==
    \* the visits of push_tree_here in order: a directory that needs making,
    \* or a file leaf
    IF IsNone(tree) THEN <<>>
    ELSE IF IsTuple(tree)
    THEN << [kind |-> "file", src |-> tree_path, dst |-> destination_root, st |-> tree.st] >>
    ELSE LET RECURSIVE below(_)
             below(i) ==
                 IF i > Len(Names) THEN <<>>
                 ELSE push_tree_here(normpath(join(tree_path, <<Names[i]>>)),
                                     tree.ch[Names[i]],
                                     normpath(join(destination_root, <<Names[i]>>)))
                      \o below(i + 1)
         IN (IF tree.st # NoSelf
             THEN << [kind |-> "dir", src |-> tree_path, dst |-> destination_root, st |-> tree.st] >>
             ELSE <<>>) \o below(1)

(***************************************************************************)
(* Inputs.  Every file of one side carries the same (atime, mtime, size);  *)
(* a directory's "." entry carries the same times and size 0.  A tree has  *)
(* the children a and b, and a may be a directory holding a file a.        *)
(***************************************************************************)
Stat(m, s) == <<60 * m, 60 * m, s>>          \* minute resolution, Base.py 80-84
FileEntries == {Stat(m, s) : m \in 0..MaxMinute, s \in 1..MaxSize}
DirSelf(e) == <<e[1], e[2], 0>>               \* Base.py 54-60

TreesOver(e) ==
    LET leaf == {Absent, File(e)}
        only(x) == [k \in NameSet |-> IF k = "a" THEN x ELSE Absent]
        sub == leaf \cup {Dir(DirSelf(e), only(x)) : x \in leaf}
    IN leaf \cup {Dir(DirSelf(e), [k \in NameSet |-> IF k = "a" THEN x ELSE y]) :
                     x \in sub, y \in leaf}

ExcludeArgs ==
    { <<>>,
      << <<"a">> >>,
      << <<"/", "a">> >>,
      << <<"*">> >>,
      << <<"b">>, <<"a", "/", "?">> >> }

path_source == <<"/", "s">>
path_destination == <<"/", "d">>

NoTrees ==
    [delete |-> Absent, copy |-> Absent, excluded_source |-> Absent,
     unaccounted_destination |-> Absent, excluded_destination |-> Absent,
     unaccounted_destination_non_excluded |-> Absent]

\* main, lines 501-510
excludePatterns ==
    IF IsDict(files_tree_source)
    THEN [i \in DOMAIN args_exclude |-> normpath(join(path_destination, args_exclude[i]))]
    ELSE [i \in DOMAIN args_exclude |-> normpath(path_destination \o args_exclude[i])]

\* variants of line 529
overwrite_error_IfForced == ~dry_run /\ force
overwrite_error_IgnoringDryRun == ~force

\* main, line 529
folder_file_overwrite_error == ~dry_run /\ ~force

RunExcludeArgs ==
    { <<>>,
      << <<"a">> >>,
      << <<"*">> >> }

InitCommon ==
    /\ force \in BOOLEAN
    /\ pc = "start"
    /\ trees = NoTrees
    /\ ops = <<>>
    /\ dfs = FsOf(files_tree_destination, path_destination)
    /\ todo = <<>>
    /\ copied_files = 0
    /\ args_paths = [source |-> path_source, destination |-> path_destination]
    /\ roots = args_paths
    /\ channel = <<>>
    /\ calls = <<>>
    /\ pruning = <<>>
    /\ copy_links = FALSE
    /\ fsrc = <<>>
    /\ built = <<>>
    /\ listing = <<>>
    /\ walk = <<>>

\* a whole run: the source files are as old as the destination's or newer
Init ==
    /\ \E m \in 0..MaxMinute : files_tree_source \in TreesOver(Stat(m, 1))
    /\ files_tree_destination \in TreesOver(Stat(0, 1))
    /\ args_exclude \in RunExcludeArgs
    /\ dry_run \in BOOLEAN
    /\ delete \in BOOLEAN
    /\ delete_excluded \in BOOLEAN
    /\ direction \in {"push", "pull"}
    /\ InitCommon

\* classification alone: older, equal and newer sources of equal and of
\* different size
InitDiff ==
    /\ \E e \in FileEntries : files_tree_source \in TreesOver(e)
    /\ \E m \in 0..MaxMinute : files_tree_destination \in TreesOver(Stat(m, 1))
    /\ args_exclude \in ExcludeArgs
    /\ dry_run = FALSE
    /\ delete = FALSE
    /\ delete_excluded = FALSE
    /\ direction = "push"
    /\ InitCommon

(***************************************************************************)
(* main(), lines 515-646: diff, prune, sort.                               *)
(***************************************************************************)
Classify ==
    /\ pc = "start"
    /\ LET r == diff_trees(files_tree_source, files_tree_destination, path_destination,
                           excludePatterns, folder_file_overwrite_error)
           u == prune_tree(r.unaccounted_destination)
           x == prune_tree(r.excluded_destination)
       IN IF r.fatal
          THEN /\ pc' = "fatal"
               /\ trees' = trees
          ELSE /\ pc' = "delete"
               /\ trees' =
                    [delete |-> prune_tree(r.delete),
                     copy |-> prune_tree(r.copy),
                     excluded_source |-> prune_tree(r.excluded_source),
                     unaccounted_destination |-> u,
                     excluded_destination |-> x,
                     unaccounted_destination_non_excluded |->
                        IF IsNone(u) THEN Absent
                        ELSE prune_tree(remove_excluded_folders_from_unaccounted_tree(u, x))]
    /\ UNCHANGED <<files_tree_source, files_tree_destination, args_exclude, dry_run, force,
                   delete, delete_excluded, direction, ops, dfs, todo, copied_files,
                   args_paths, roots,
                   channel, calls, pruning, copy_links, fsrc, built, listing, walk>>

\* a variant that applies the delete tree only after the copy step has finished
DeleteTree_AfterCopy ==
    /\ pc \in {"delete", "done"}
    /\ LET seq == IF pc = "done"
                  THEN remove_tree(path_destination, trees.delete, dry_run)
                  ELSE <<>>
           r == Issue(dfs, seq, direction, <<>>)
       IN /\ ops' = ops \o r.issued
          /\ dfs' = r.fs
          /\ pc' = IF ~r.ok THEN "crashed"
                   ELSE IF pc = "done" THEN "deleted" ELSE "delete_more"
    /\ UNCHANGED <<files_tree_source, files_tree_destination, args_exclude, dry_run, force,
                   delete, delete_excluded, direction, trees, todo, copied_files,
                   args_paths, roots,
                   channel, calls, pruning, copy_links, fsrc, built, listing, walk>>

\* main(), lines 647-652
DeleteTree ==
    /\ pc = "delete"
    /\ LET r == Issue(dfs, remove_tree(path_destination, trees.delete, dry_run),
                      direction, <<>>)
       IN /\ ops' = ops \o r.issued
          /\ dfs' = r.fs
          /\ pc' = IF r.ok THEN "delete_more" ELSE "crashed"
    /\ UNCHANGED <<files_tree_source, files_tree_destination, args_exclude, dry_run, force,
                   delete, delete_excluded, direction, trees, todo, copied_files,
                   args_paths, roots,
                   channel, calls, pruning, copy_links, fsrc, built, listing, walk>>

\* main(), lines 654-694
DeleteMore ==
    /\ pc = "delete_more"
    /\ LET rt(t) == remove_tree(path_destination, t, dry_run)
           seq == IF delete_excluded /\ delete
                  THEN rt(trees.excluded_destination) \o rt(trees.unaccounted_destination)
                  ELSE IF delete_excluded THEN rt(trees.excluded_destination)
                  ELSE IF delete THEN rt(trees.unaccounted_destination_non_excluded)
                  ELSE <<>>
           r == Issue(dfs, seq, direction, <<>>)
       IN /\ ops' = ops \o r.issued
          /\ dfs' = r.fs
          /\ pc' = IF r.ok THEN "copy" ELSE "crashed"
    /\ UNCHANGED <<files_tree_source, files_tree_destination, args_exclude, dry_run, force,
                   delete, delete_excluded, direction, trees, todo, copied_files,
                   args_paths, roots,
                   channel, calls, pruning, copy_links, fsrc, built, listing, walk>>

\* main(), lines 696-722: makedirs of the destination root, then push_tree_here
CopyStart ==
    /\ pc = "copy"
    /\ IF IsNone(trees.copy)
       THEN /\ pc' = "done"
            /\ UNCHANGED <<ops, dfs, todo>>
       ELSE LET r == Issue(dfs, <<Op("makedirs", path_destination, <<>>)>>, direction, <<>>)
            IN /\ ops' = ops \o r.issued
               /\ dfs' = r.fs
               /\ todo' = IF r.ok
                          THEN push_tree_here(path_source, trees.copy, path_destination)
                          ELSE <<>>
               /\ pc' = IF r.ok THEN "push"
                        ELSE IF DestinationIsLocal(direction) THEN "crashed" ELSE "fatal"
    /\ UNCHANGED <<files_tree_source, files_tree_destination, args_exclude, dry_run, force,
                   delete, delete_excluded, direction, trees, copied_files, args_paths, roots,
                   channel, calls, pruning, copy_links, fsrc, built, listing, walk>>

\* push_tree_here on a dict, lines 176-183
PushDir ==
    /\ pc = "push"
    /\ todo # <<>>
    /\ Head(todo).kind = "dir"
    /\ LET seq == IF dry_run THEN <<>> ELSE <<Op("makedirs", Head(todo).dst, <<>>)>>
           r == Issue(dfs, seq, direction, <<>>)
       IN /\ ops' = ops \o r.issued
          /\ dfs' = r.fs
          /\ todo' = IF r.ok THEN Tail(todo) ELSE todo
          /\ pc' = IF r.ok THEN "push"
                   ELSE IF DestinationIsLocal(direction) THEN "crashed" ELSE "fatal"
    /\ UNCHANGED <<files_tree_source, files_tree_destination, args_exclude, dry_run, force,
                   delete, delete_excluded, direction, trees, copied_files, args_paths, roots,
                   channel, calls, pruning, copy_links, fsrc, built, listing, walk>>

\* push_tree_here on a tuple, lines 124-134: dry run counts the file (142-145);
\* otherwise push_file_here starts the transfer process (Popen)
PushFile ==
    /\ pc = "push"
    /\ todo # <<>>
    /\ Head(todo).kind = "file"
    /\ IF dry_run
       THEN /\ copied_files' = copied_files + 1
            /\ todo' = Tail(todo)
            /\ UNCHANGED <<ops, dfs, pc>>
       ELSE LET dst == Head(todo).dst
                \* LocalFileSystem.push_file_here, line 54
                pre == IF DestinationIsLocal(direction)
                       THEN <<Op("makedirs", dirname(dst), <<>>)>> ELSE <<>>
                r == Issue(dfs, pre, direction, <<>>)
            IN /\ ops' = ops \o r.issued \o
                         (IF r.ok THEN <<Op("push", dst, <<>>)>> ELSE <<>>)
               /\ dfs' = IF r.ok
                         THEN With(r.fs, Target(r.fs, Head(todo).src, dst),
                                   [kind |-> "partial", st |-> Head(todo).st])
                         ELSE r.fs
               /\ pc' = IF r.ok THEN "transfer" ELSE "crashed"
               /\ UNCHANGED <<todo, copied_files>>
    /\ UNCHANGED <<files_tree_source, files_tree_destination, args_exclude, dry_run, force,
                   delete, delete_excluded, direction, trees, args_paths, roots,
                   channel, calls, pruning, copy_links, fsrc, built, listing, walk>>

\* utime: os.utime raises when the path is missing; touch creates it
UtimeRaises(fs, path, dir) == DestinationIsLocal(dir) /\ path \notin DOMAIN fs
utime(fs, path, times) ==
    IF path \in DOMAIN fs
    THEN With(fs, path, [kind |-> fs[path].kind,
                         st |-> <<times[1], times[2], fs[path].st[3]>>])
    ELSE With(fs, path, [kind |-> "reg", st |-> <<times[1], times[2], 0>>])

\* the transfer process ends with some return code, which push_file_here does
\* not read (Android.py 263-280, Local.py 63-81); push_tree_here, lines 135-174
TransferExit ==
    /\ pc = "transfer"
    /\ \E returncode \in {0, 1}, left \in BOOLEAN :
         LET item == Head(todo)
             at == Target(Without(dfs, {q \in DOMAIN dfs : dfs[q].kind = "partial"}),
                          item.src, item.dst)
             after == IF returncode = 0
                      THEN With(dfs, at, [kind |-> "reg", st |-> item.st])
                      ELSE IF left THEN dfs ELSE Without(dfs, {at})
             times == <<item.st[1], item.st[2]>>
         IN /\ (returncode = 0 => left)
            /\ ops' = ops \o <<Op("exited", item.dst, <<returncode>>),
                               Op("utime", item.dst, times)>>
            /\ IF UtimeRaises(after, item.dst, direction)
               THEN /\ dfs' = after
                    /\ pc' = "crashed"
                    /\ UNCHANGED <<todo, copied_files>>
               ELSE /\ dfs' = utime(after, item.dst, times)
                    /\ pc' = "push"
                    /\ todo' = Tail(todo)
                    /\ copied_files' = copied_files + 1
    /\ UNCHANGED <<files_tree_source, files_tree_destination, args_exclude, dry_run, force,
                   delete, delete_excluded, direction, trees, args_paths, roots,
                   channel, calls, pruning, copy_links, fsrc, built, listing, walk>>

\* KeyboardInterrupt while the transfer runs; push_tree_here, lines 136-140
Interrupt ==
    /\ pc = "transfer"
    /\ LET dst == Head(todo).dst
           r == Issue(dfs, <<Op("unlink", dst, <<>>)>>, direction, <<>>)
       IN /\ ops' = ops \o <<Op("kill", dst, <<>>)>> \o r.issued
          /\ dfs' = r.fs
          /\ pc' = IF r.ok THEN "fatal" ELSE "crashed"
    /\ UNCHANGED <<files_tree_source, files_tree_destination, args_exclude, dry_run, force,
                   delete, delete_excluded, direction, trees, todo, copied_files,
                   args_paths, roots,
                   channel, calls, pruning, copy_links, fsrc, built, listing, walk>>

\* push_tree_here has returned; main, lines 723-725
PushDone ==
    /\ pc = "push"
    /\ todo = <<>>
    /\ pc' = "done"
    /\ UNCHANGED <<files_tree_source, files_tree_destination, args_exclude, dry_run, force,
                   delete, delete_excluded, direction, trees, ops, dfs, todo,
                   copied_files, args_paths, roots,
                   channel, calls, pruning, copy_links, fsrc, built, listing, walk>>

Next ==
    \/ Classify
    \/ DeleteTree
    \/ DeleteMore
    \/ CopyStart
    \/ PushDir
    \/ PushFile
    \/ TransferExit
    \/ Interrupt
    \/ PushDone

Spec == Init /\ [][Next]_vars

NextDiff == Classify

SpecDiff == InitDiff /\ [][NextDiff]_vars

(***************************************************************************)
(* Snapshots: FileSystem.get_files_tree (Base.py 33-90) as main() calls it *)
(* (lines 452-478).  A filesystem entry is what lstat says of it: its      *)
(* mode, times and size, the listing of a directory in the order the       *)
(* filesystem returns it (for a link: its resolved target, under the name  *)
(* "realpath"), and the error lstat raises for it, if any.                 *)
(***************************************************************************)
Node(mode, mtime, size, entries, raises) ==
    [st_mode |-> mode, st_mtime |-> mtime, st_size |-> size,
     entries |-> entries, raises |-> raises]
Reg(mtime, size) == Node("S_IFREG", mtime, size, <<>>, "")
Fifo == Node("S_IFIFO", 0, 0, <<>>, "")
Lnk(target) == Node("S_IFLNK", 0, 0, target, "")
Folder(mtime, entries) == Node("S_IFDIR", mtime, 0, entries, "")
LstatRaises(e) == Node("", 0, 0, <<>>, e)

Skipped == {"FileNotFoundError", "NotADirectoryError", "PermissionError"}

Return(tree) == [raised |-> "", tree |-> tree]
Raise(e) == [raised |-> e, tree |-> Absent]

\* the filesystem of a side: the device's in the other direction
IsAndroid(side) == (side = "source") = (direction = "pull")

\* LocalFileSystem.lstat (Local.py 29-30) raises what os.lstat raises;
\* AndroidFileSystem.ls_to_stat (Android.py 118-176) raises for the lines
\* it knows and ends the program on any other line
lstat(android, node) ==
    IF node.raises = "" THEN ""
    ELSE IF android /\ node.raises = "PermissionError" THEN "SystemExit"
    ELSE node.raises

\* the filename lstat_in_dir yields with an entry: os.listdir's name
\* (Local.py 32-34); the filename group of RE_LS_TO_STAT, which a symlink
\* line leaves unset (Android.py 60-61, 166, 228-233).  Base.py 68 joins it
\* to the directory's path, and os.path.join raises TypeError for None
NoFilename == ""

lstat_in_dir_filename(android, name, node) ==
    IF android /\ node.st_mode = "S_IFLNK" THEN NoFilename ELSE name

\* Base.py 80-84 and 54-60: minute resolution
Minute(t) == 60 * (t \div 60)

RECURSIVE _get_files_tree(_, _, _)
RECURSIVE WalkEntries(_, _, _, _)
\* Base.py 61-71: the loop over lstat_in_dir; the first entry whose lstat,
\* whose join or whose walk raises ends the loop and the walk
WalkEntries(entries, tree, follow_links, android) ==
    IF entries = <<>> THEN Return(tree)
    ELSE LET child == Head(entries)[2]
             filename == lstat_in_dir_filename(android, Head(entries)[1], child)
         IN IF lstat(android, child) # "" THEN Raise(lstat(android, child))
            ELSE IF filename = NoFilename THEN Raise("TypeError")
            ELSE LET r == _get_files_tree(child, follow_links, android)
                 IN IF r.raised # "" THEN r
                    ELSE WalkEntries(Tail(entries),
                                     Dir(tree.st, [tree.ch EXCEPT ![filename] = r.tree]),
                                     follow_links, android)

\* Base.py 33-86, for an entry whose lstat succeeded
_get_files_tree(node, follow_links, android) ==
    IF node.st_mode = "S_IFLNK"
    THEN IF ~follow_links THEN Return(Absent)
         ELSE LET target == IF node.entries = <<>> THEN LstatRaises("FileNotFoundError")
                            ELSE node.entries[1][2]
                  e == lstat(android, target)
              IN IF e \in Skipped THEN Return(Absent)
                 ELSE IF e # "" THEN Raise(e)
                 ELSE _get_files_tree(target, follow_links, android)
    ELSE IF node.st_mode = "S_IFDIR"
    THEN WalkEntries(node.entries,
                     Dir(<<Minute(node.st_mtime), Minute(node.st_mtime), 0>>,
                         [k \in NameSet |-> Absent]),
                     follow_links, android)
    ELSE IF node.st_mode = "S_IFREG"
    THEN Return(File(<<Minute(node.st_mtime), Minute(node.st_mtime), node.st_size>>))
    ELSE Raise("NotImplementedError")

\* Base.py 88-90
get_files_tree(node, follow_links, android) ==
    IF lstat(android, node) # "" THEN Raise(lstat(android, node))
    ELSE _get_files_tree(node, follow_links, android)

\* the entries of the walked filesystems
StTimes == {60 * m + 59 : m \in 0..(MaxMinute - 1)} \cup {60 * MaxMinute}
Leaves ==
    {Reg(t, MaxSize) : t \in StTimes} \cup {LstatRaises(e) : e \in Skipped}
        \cup {Fifo, Lnk(<<>>), Lnk(<< <<"realpath", Reg(60 * MaxMinute, 1)>> >>)}
Entries ==
    Leaves \cup {Folder(60, << <<"a", x>> >>) :
                    x \in {Reg(60, 1), LstatRaises("FileNotFoundError")}}
Listings ==
    { <<>> } \cup { << <<k, x>> >> : k \in NameSet, x \in Entries }
        \cup { << <<k, x>>, <<l, y>> >> : k \in {"a"}, l \in {"b"},
                                         x \in Entries, y \in Entries }
        \cup { << <<k, x>>, <<l, y>> >> : k \in {"b"}, l \in {"a"},
                                         x \in Entries, y \in Entries }
Roots ==
    {Folder(60, l) : l \in Listings} \cup {LstatRaises(e) : e \in Skipped}
        \cup {Reg(60, 1), Lnk(<< <<"realpath", Folder(60, << <<"a", Reg(60, 1)>> >>)>> >>)}
FewRoots ==
    {Folder(60, <<>>), Folder(60, << <<"a", Reg(60, 1)>> >>), Reg(60, 1),
     LstatRaises("FileNotFoundError"),
     Folder(60, << <<"a", LstatRaises("FileNotFoundError")>>, <<"b", Reg(60, 1)>> >>)}

InitBuild ==
    /\ files_tree_source = Absent
    /\ files_tree_destination = Absent
    /\ args_exclude = <<>>
    /\ dry_run = FALSE
    /\ force = FALSE
    /\ delete = FALSE
    /\ delete_excluded = FALSE
    /\ direction \in {"push", "pull"}
    /\ pc = "snapshot_source"
    /\ trees = NoTrees
    /\ ops = <<>>
    /\ dfs = <<>>
    /\ todo = <<>>
    /\ copied_files = 0
    /\ args_paths = [source |-> path_source, destination |-> path_destination]
    /\ roots = args_paths
    /\ channel = <<>>
    /\ calls = <<>>
    /\ pruning = <<>>
    /\ copy_links \in BOOLEAN
    /\ \E s \in Roots, d \in Roots :
          /\ s \in FewRoots \/ d \in FewRoots
          /\ fsrc = [source |-> s, destination |-> d]
    /\ built = [source |-> "unbuilt", destination |-> "unbuilt"]
    /\ listing = <<>>
    /\ walk = <<>>

\* main, lines 452-461: any of the three errors is fatal; anything else
\* leaves main() as an uncaught exception
GetSourceTree ==
    /\ pc = "snapshot_source"
    /\ LET r == get_files_tree(fsrc.source, copy_links, IsAndroid("source"))
       IN /\ built' = [built EXCEPT !.source = r.raised]
          /\ files_tree_source' = r.tree
          /\ pc' = IF r.raised = "" THEN "snapshot_destination"
                   ELSE IF r.raised \in Skipped \cup {"SystemExit"} THEN "fatal"
                   ELSE "crashed"
    /\ UNCHANGED <<files_tree_destination, args_exclude, dry_run, force, delete,
                   delete_excluded, direction, trees, ops, dfs, todo, copied_files,
                   args_paths, roots,
                   channel, calls, pruning, copy_links, fsrc, listing, walk>>

\* main, lines 463-478: FileNotFoundError makes the destination absent
GetDestinationTree ==
    /\ pc = "snapshot_destination"
    /\ LET r == get_files_tree(fsrc.destination, copy_links, IsAndroid("destination"))
       IN /\ built' = [built EXCEPT !.destination = r.raised]
          /\ files_tree_destination' = r.tree
          /\ pc' = IF r.raised \in {"", "FileNotFoundError"} THEN "start"
                   ELSE IF r.raised \in Skipped \cup {"SystemExit"} THEN "fatal"
                   ELSE "crashed"
    /\ UNCHANGED <<files_tree_source, args_exclude, dry_run, force, delete,
                   delete_excluded, direction, trees, ops, dfs, todo, copied_files,
                   args_paths, roots,
                   channel, calls, pruning, copy_links, fsrc, listing, walk>>

NextBuild ==
    \/ GetSourceTree
    \/ GetDestinationTree

SpecBuild == InitBuild /\ [][NextBuild]_vars

(***************************************************************************)
(* The roots of a run: main(), lines 434-450, and                          *)
(* FileSyncer.paths_to_fixed_destination_paths (lines 349-389).  The two   *)
(* arguments are looked up with lstat; fsrc holds what lstat says of each. *)
(***************************************************************************)
Resolved(src, dst) == [fatal |-> FALSE, source |-> src, destination |-> dst]
Unresolved == [fatal |-> TRUE, source |-> <<>>, destination |-> <<>>]

\* lstat of a path argument: the empty path names nothing
LstatOf(android, path, node) ==
    IF path = <<>> THEN "FileNotFoundError" ELSE lstat(android, node)

\* lines 349-389
paths_to_fixed_destination_paths(path_src, lstat_source, android_source, path_dst, lstat_destination, android_destination) ==
    LET de == LstatOf(android_destination, path_dst, lstat_destination)
        se == LstatOf(android_source, path_src, lstat_source)
    IN IF de = "FileNotFoundError" THEN Resolved(path_src, path_dst)
       ELSE IF de # "" THEN Unresolved
       ELSE IF lstat_destination.st_mode = "S_IFLNK" THEN Unresolved
       ELSE IF lstat_destination.st_mode # "S_IFDIR" THEN Resolved(path_src, path_dst)
       ELSE IF se = "FileNotFoundError" THEN Resolved(path_src, path_dst)
       ELSE IF se # "" THEN Unresolved
       ELSE IF \/ lstat_source.st_mode = "S_IFREG"
               \/ (lstat_source.st_mode = "S_IFDIR" /\ path_src[Len(path_src)] # "/")
            THEN Resolved(path_src, join(path_dst, basename(path_src)))
            ELSE Resolved(path_src, path_dst)

SourceArgs ==
    { <<"/", "s">>, <<"/", "s", "/">>, <<"/", "s", "/", "/">>, <<"s">>, <<"s", "/">>,
      <<"/", "s", "/", "a">>, <<"/">> }
DestinationArgs ==
    { <<"/", "d">>, <<"/", "d", "/">>, <<"d">> }
ArgumentKinds ==
    {Folder(60, <<>>), Reg(60, 1), Lnk(<<>>), Fifo} \cup {LstatRaises(e) : e \in Skipped}

InitPaths ==
    /\ files_tree_source = Absent
    /\ files_tree_destination = Absent
    /\ args_exclude = <<>>
    /\ dry_run = FALSE
    /\ force = FALSE
    /\ delete = FALSE
    /\ delete_excluded = FALSE
    /\ direction \in {"push", "pull"}
    /\ pc = "arguments"
    /\ trees = NoTrees
    /\ ops = <<>>
    /\ dfs = <<>>
    /\ todo = <<>>
    /\ copied_files = 0
    /\ args_paths \in [source : SourceArgs, destination : DestinationArgs]
    /\ roots = [source |-> <<>>, destination |-> <<>>]
    /\ channel = <<>>
    /\ calls = <<>>
    /\ pruning = <<>>
    /\ copy_links = FALSE
    /\ fsrc \in [source : ArgumentKinds, destination : ArgumentKinds]
    /\ built = [source |-> "unbuilt", destination |-> "unbuilt"]
    /\ listing = <<>>
    /\ walk = <<>>

\* main, lines 434-450: strip the trailing slashes, fix the destination,
\* normalise both paths
ResolveRoots ==
    /\ pc = "arguments"
    /\ LET r == paths_to_fixed_destination_paths(
                    rstripSlash(args_paths.source), fsrc.source, IsAndroid("source"),
                    rstripSlash(args_paths.destination), fsrc.destination,
                    IsAndroid("destination"))
       IN IF r.fatal
          THEN pc' = "fatal" /\ UNCHANGED roots
          ELSE /\ pc' = "snapshot_source"
               /\ roots' = [source |-> normpath(r.source),
                            destination |-> normpath(r.destination)]
    /\ UNCHANGED <<files_tree_source, files_tree_destination, args_exclude, dry_run,
                   force, delete, delete_excluded, direction, trees, ops, dfs, todo,
                   copied_files, args_paths, channel, calls, pruning, copy_links, fsrc, built, listing, walk>>

NextPaths == ResolveRoots

SpecPaths == InitPaths /\ [][NextPaths]_vars

(***************************************************************************)
(* The remote shell channel: AndroidFileSystem.adb_shell (Android.py       *)
(* 84-101) and its callers lstat, realpath and lstat_in_dir (214-233).     *)
(* A line is a sequence of characters; "S" stands for the text of          *)
(* ADBSYNC_END_OF_COMMAND and "x" for any other text.  The process writes  *)
(* the output of one command and then the line the echo prints.  When the  *)
(* process ends its pipes close: what it wrote can still be read, then     *)
(* readline() returns nothing, and a write to it raises BrokenPipeError.   *)
(***************************************************************************)
ADBSYNC_END_OF_COMMAND == <<"S">>

CallIds == {1, 2, 3}
CommandKinds == {"lstat", "realpath", "lstat_in_dir"}
\* what a command prints, without the line ends
Outputs ==
    { <<>>, << <<"x">> >>, << <<"x", "S">> >>, << <<"x">>, <<"S", "x">> >> }

Eol == IF channel.crlf THEN <<"CR", "LF">> ELSE <<"LF">>
LinesOf(id, output) ==
    [i \in DOMAIN output |-> [cmd |-> id, echo |-> FALSE, text |-> output[i] \o Eol]]
EchoOf(id) == [cmd |-> id, echo |-> TRUE, text |-> ADBSYNC_END_OF_COMMAND \o Eol]

RECURSIVE rstripCRLF(_)
\* line 95: rstrip("\r\n")
rstripCRLF(text) ==
    IF text # <<>> /\ text[Len(text)] \in {"CR", "LF"}
    THEN rstripCRLF(SubSeq(text, 1, Len(text) - 1))
    ELSE text

\* variant: the sentinel is looked for inside the line
EndsReply_Substring(adb_line) ==
    \E i \in DOMAIN adb_line : adb_line[i] = "S"

\* line 96
EndsReply(adb_line) == adb_line = ADBSYNC_END_OF_COMMAND

\* variant: a line is yielded as soon as it is read
Available_AsRead(frame) == frame.lines

\* lines 93-101: lines_to_yield is yielded once the loop has ended
Available(frame) == IF frame.complete THEN frame.lines ELSE <<>>

Top == calls.frames[Len(calls.frames)]
Pop == SubSeq(calls.frames, 1, Len(calls.frames) - 1)
Unread == SubSeq(channel.out, channel.pos + 1, Len(channel.out))

\* the caller runs: no generator is inside its read loop
HasControl ==
    IF calls.frames = <<>> THEN TRUE
    ELSE IF Top.complete THEN TRUE
    ELSE Top.taken < Len(Available(Top))

InitShell ==
    /\ files_tree_source = Absent
    /\ files_tree_destination = Absent
    /\ args_exclude = <<>>
    /\ dry_run = FALSE
    /\ force = FALSE
    /\ delete = FALSE
    /\ delete_excluded = FALSE
    /\ direction = "pull"
    /\ pc = "shell"
    /\ trees = NoTrees
    /\ ops = <<>>
    /\ dfs = <<>>
    /\ todo = <<>>
    /\ copied_files = 0
    /\ args_paths = [source |-> path_source, destination |-> path_destination]
    /\ roots = args_paths
    /\ \E crlf \in BOOLEAN :
          channel = [alive |-> TRUE, crlf |-> crlf, stdin |-> <<>>, out |-> <<>>, pos |-> 0]
    /\ calls = [frames |-> <<>>, replies |-> <<>>, written |-> <<>>]
    /\ pruning = <<>>
    /\ copy_links = FALSE
    /\ fsrc = <<>>
    /\ built = <<>>
    /\ listing = <<>>
    /\ walk = <<>>

ShellUnchanged ==
    UNCHANGED <<files_tree_source, files_tree_destination, args_exclude, dry_run, force,
                delete, delete_excluded, direction, trees, ops, dfs, todo, copied_files,
                args_paths, roots, pruning, copy_links, fsrc, built, listing, walk>>

\* lines 85-91: a caller starts adb_shell; the command and the echo are written.
\* lstat_in_dir is started at the top or from inside the loop over a listing
\* (Base.py 61-71), lstat and realpath anywhere
Call ==
    /\ pc = "shell"
    /\ HasControl
    /\ \E id \in CallIds, kind \in CommandKinds :
          /\ \A i \in DOMAIN calls.written : calls.written[i] < id
          /\ \A smaller \in CallIds : smaller < id => \E i \in DOMAIN calls.written : calls.written[i] = smaller
          /\ IF calls.frames = <<>> THEN TRUE
             ELSE Top.kind = "lstat_in_dir" /\ Top.taken > 0
          /\ IF channel.alive
             THEN /\ channel' = [channel EXCEPT !.stdin = Append(@, id)]
                  /\ calls' = [calls EXCEPT
                                 !.written = Append(@, id),
                                 !.frames = Append(@, [id |-> id, kind |-> kind, lines |-> <<>>,
                                                       complete |-> FALSE, taken |-> 0,
                                                       from |-> channel.pos])]
                  /\ pc' = pc
             ELSE pc' = "crashed" /\ UNCHANGED <<channel, calls>>
    /\ ShellUnchanged

\* the device runs the next command of its stdin and the echo after it, or
\* ends while the command prints
DeviceRun ==
    /\ pc = "shell"
    /\ channel.alive
    /\ channel.stdin # <<>>
    /\ \E output \in Outputs, cut \in BOOLEAN :
          LET id == Head(channel.stdin)
              printed == LinesOf(id, output)
          IN IF cut
             THEN /\ printed # <<>>
                  /\ channel' = [channel EXCEPT
                                   !.alive = FALSE,
                                   !.out = @ \o SubSeq(printed, 1, Len(printed) - 1)]
             ELSE channel' = [channel EXCEPT
                                !.stdin = Tail(@),
                                !.out = @ \o printed \o <<EchoOf(id)>>]
    /\ UNCHANGED <<pc, calls>>
    /\ ShellUnchanged

\* lines 94-99: one turn of the read loop
ReadLine ==
    /\ pc = "shell"
    /\ calls.frames # <<>>
    /\ ~Top.complete
    /\ Unread # <<>>
    /\ LET adb_line == rstripCRLF(Head(Unread).text)
           n == Len(calls.frames)
       IN IF EndsReply(adb_line)
          THEN calls' = [calls EXCEPT
                           !.frames[n].complete = TRUE,
                           !.replies = Append(@, [id |-> Top.id, kind |-> Top.kind,
                                                  lines |-> Top.lines, from |-> Top.from,
                                                  ended |-> "sentinel"])]
          ELSE calls' = [calls EXCEPT !.frames[n].lines = Append(@, adb_line)]
    /\ channel' = [channel EXCEPT !.pos = @ + 1]
    /\ UNCHANGED pc
    /\ ShellUnchanged

\* line 94: readline() returns nothing, the loop ends and the lines read
\* so far are yielded
ReadEof ==
    /\ pc = "shell"
    /\ calls.frames # <<>>
    /\ ~Top.complete
    /\ Unread = <<>>
    /\ ~channel.alive
    /\ calls' = [calls EXCEPT
                   !.frames[Len(calls.frames)].complete = TRUE,
                   !.replies = Append(@, [id |-> Top.id, kind |-> Top.kind,
                                          lines |-> Top.lines, from |-> Top.from,
                                          ended |-> "eof"])]
    /\ UNCHANGED <<pc, channel>>
    /\ ShellUnchanged

\* lines 100-101 and 224-233: the caller takes the next line; lstat and
\* realpath return with the first one and drop the generator
Take ==
    /\ pc = "shell"
    /\ calls.frames # <<>>
    /\ Top.taken < Len(Available(Top))
    /\ IF Top.kind = "lstat_in_dir"
       THEN calls' = [calls EXCEPT !.frames[Len(calls.frames)].taken = @ + 1]
       ELSE calls' = [calls EXCEPT !.frames = Pop]
    /\ UNCHANGED <<pc, channel>>
    /\ ShellUnchanged

\* the generator is exhausted: the caller's loop ends
Exhausted ==
    /\ pc = "shell"
    /\ calls.frames # <<>>
    /\ Top.complete
    /\ Top.taken = Len(Top.lines)
    /\ calls' = [calls EXCEPT !.frames = Pop]
    /\ UNCHANGED <<pc, channel>>
    /\ ShellUnchanged

\* the adb process ends
Disconnect ==
    /\ pc = "shell"
    /\ channel.alive
    /\ channel' = [channel EXCEPT !.alive = FALSE]
    /\ UNCHANGED <<pc, calls>>
    /\ ShellUnchanged

NextShell ==
    \/ Call
    \/ DeviceRun
    \/ ReadLine
    \/ ReadEof
    \/ Take
    \/ Exhausted
    \/ Disconnect

SpecShell == InitShell /\ [][NextShell]_vars

(***************************************************************************)
(* FileSyncer.prune_tree (lines 330-341) on the dicts diff_trees builds,   *)
(* in which a key may be missing or may be present with the value None.    *)
(* A value is None, a tuple or a dict; a dict gives every key of Keys a    *)
(* value or NoKey.                                                         *)
(***************************************************************************)
Keys == {".", "a", "b"}
NoKey == [t |-> "missing", v |-> <<>>, d |-> <<>>]
PyNone == [t |-> "None", v |-> <<>>, d |-> <<>>]
PyTuple(v) == [t |-> "tuple", v |-> v, d |-> <<>>]
PyDict(d) == [t |-> "dict", v |-> <<>>, d |-> d]

RECURSIVE prune_Shallow(_)
\* variant: the values of the dict are not pruned themselves
prune_Shallow(tree) ==
    IF tree.t # "dict" THEN tree
    ELSE LET return_dict ==
                 [key \in Keys |-> IF tree.d[key].t = "None" THEN NoKey ELSE tree.d[key]]
         IN IF \A key \in Keys : return_dict[key] = NoKey THEN PyNone
            ELSE PyDict(return_dict)

RECURSIVE prune(_)
\* lines 330-341
prune(tree) ==
    IF tree.t # "dict" THEN tree
    ELSE LET value_pruned == [key \in Keys |->
                                 IF tree.d[key] = NoKey THEN NoKey ELSE prune(tree.d[key])]
             return_dict == [key \in Keys |->
                                IF value_pruned[key].t = "None" THEN NoKey
                                ELSE value_pruned[key]]
         IN IF \A key \in Keys : return_dict[key] = NoKey THEN PyNone
            ELSE PyDict(return_dict)

PyLeaves == {NoKey, PyNone, PyTuple(Stat(MaxMinute, MaxSize))}
PyDicts(values) ==
    {PyDict([key \in Keys |-> IF key = "." THEN self ELSE IF key = "a" THEN x ELSE y]) :
        self \in PyLeaves, x \in values, y \in PyLeaves}
PyTrees == (PyLeaves \ {NoKey}) \cup PyDicts(PyLeaves \cup PyDicts(PyLeaves))

InitPrune ==
    /\ files_tree_source = Absent
    /\ files_tree_destination = Absent
    /\ args_exclude = <<>>
    /\ dry_run = FALSE
    /\ force = FALSE
    /\ delete = FALSE
    /\ delete_excluded = FALSE
    /\ direction = "push"
    /\ pc = "prune"
    /\ trees = NoTrees
    /\ ops = <<>>
    /\ dfs = <<>>
    /\ todo = <<>>
    /\ copied_files = 0
    /\ args_paths = [source |-> path_source, destination |-> path_destination]
    /\ roots = args_paths
    /\ channel = <<>>
    /\ calls = <<>>
    /\ \E tree \in PyTrees : pruning = [tree |-> tree, results |-> <<>>]
    /\ copy_links = FALSE
    /\ fsrc = <<>>
    /\ built = <<>>
    /\ listing = <<>>
    /\ walk = <<>>

\* prune_tree is applied to the tree, then to its own result
Prune ==
    /\ pc = "prune"
    /\ Len(pruning.results) < 2
    /\ pruning' = [pruning EXCEPT !.results =
                      Append(@, prune(IF @ = <<>> THEN pruning.tree ELSE @[Len(@)]))]
    /\ UNCHANGED <<files_tree_source, files_tree_destination, args_exclude, dry_run, force,
                   delete, delete_excluded, direction, pc, trees, ops, dfs, todo,
                   copied_files, args_paths, roots, channel, calls, copy_links, fsrc, built, listing, walk>>

NextPrune == Prune

SpecPrune == InitPrune /\ [][NextPrune]_vars

(***************************************************************************)
(* Vocabulary of the properties.  Both snapshots are read at destination   *)
(* paths: the source node "at p" is the one diff_trees pairs with p.       *)
(***************************************************************************)
AllPaths ==
    PathsOf(files_tree_source, path_destination) \cup
    PathsOf(files_tree_destination, path_destination)
SourceAt(p) == Lookup(files_tree_source, path_destination, p)
DestinationAt(p) == Lookup(files_tree_destination, path_destination, p)
TreeAt(tree, p) == Lookup(tree, path_destination, p)

Matches(p) == Excluded(p, excludePatterns)
\* p or a directory above it (up to the root of the sync) matches a pattern
Covered(p) == \E q \in Ancestors(p) : Matches(q)
AboveCovered(p) == \E q \in Ancestors(p) \ {p} : Matches(q)

\* a file leaf or a self-entry at p
HasEntry(tree, p) ==
    LET n == TreeAt(tree, p)
    IN IsTuple(n) \/ (IsDict(n) /\ n.st # NoSelf)

FilePair(p) == IsTuple(SourceAt(p)) /\ IsTuple(DestinationAt(p))
FileOverDir(p) == IsTuple(SourceAt(p)) /\ IsDict(DestinationAt(p))
DirOverFile(p) == IsDict(SourceAt(p)) /\ IsTuple(DestinationAt(p))
TypeConflict(p) == FileOverDir(p) \/ DirOverFile(p)

Classified == pc \notin {"start", "fatal"}

(***************************************************************************)
(* C1 as stated: on a non-excluded File/File pair whose source is not      *)
(* newer than the destination, nothing is selected for delete or copy,     *)
(* whatever the two sizes.                                                 *)
(***************************************************************************)
C1_AsStated ==
    Classified =>
        \A p \in AllPaths :
            (FilePair(p) /\ ~Covered(p) /\ SourceAt(p).st[2] <= DestinationAt(p).st[2])
            => (IsNone(TreeAt(trees.delete, p)) /\ IsNone(TreeAt(trees.copy, p)))

(***************************************************************************)
(* C1 amended: a non-excluded File/File pair whose source is not newer is  *)
(* a no-op exactly when the two sizes are equal; when the sizes differ the *)
(* destination entry is selected for delete and the source entry for copy. *)
(***************************************************************************)
C1_NotNewer ==
    Classified =>
        \A p \in AllPaths :
            (FilePair(p) /\ ~Covered(p) /\ SourceAt(p).st[2] <= DestinationAt(p).st[2])
            => IF SourceAt(p).st[3] = DestinationAt(p).st[3]
               THEN /\ IsNone(TreeAt(trees.delete, p))
                    /\ IsNone(TreeAt(trees.copy, p))
               ELSE /\ TreeAt(trees.delete, p) = DestinationAt(p)
                    /\ TreeAt(trees.copy, p) = SourceAt(p)

C1_Witness ==
    /\ Classified
    /\ \E p \in AllPaths :
          /\ FilePair(p) /\ ~Covered(p)
          /\ SourceAt(p).st[2] < DestinationAt(p).st[2]
          /\ SourceAt(p).st[3] = DestinationAt(p).st[3]
          /\ IsNone(TreeAt(trees.copy, p))
    /\ \E p \in AllPaths :
          /\ p # path_destination
          /\ FilePair(p) /\ ~Covered(p)

(***************************************************************************)
(* C3: after classification no excluded destination path, and no path      *)
(* below an excluded directory, has a file leaf or a self-entry in the     *)
(* pruned delete, copy or unaccounted-destination tree.                    *)
(***************************************************************************)
C3_ExclusionSuppresses ==
    Classified =>
        \A p \in AllPaths :
            Covered(p) =>
                /\ ~HasEntry(trees.delete, p)
                /\ ~HasEntry(trees.copy, p)
                /\ ~HasEntry(trees.unaccounted_destination, p)

(***************************************************************************)
(* C6 as stated: with the error flag active, a File-versus-Dir mismatch at *)
(* a path diff_trees reaches is fatal whether or not the path matches an   *)
(* exclusion pattern.                                                      *)
(***************************************************************************)
C6_AsStated ==
    (folder_file_overwrite_error /\ pc # "start" /\
     \E p \in AllPaths : TypeConflict(p) /\ ~AboveCovered(p))
    => pc = "fatal"

(***************************************************************************)
(* C6 amended: with the error flag active diff_trees aborts exactly when   *)
(* some File-versus-Dir mismatch lies at a path that is not excluded; a    *)
(* mismatch at a path that matches an exclusion pattern does not abort:    *)
(* its source entry is recorded in excludedSource and nothing at that path *)
(* is selected for delete or copy.                                         *)
(***************************************************************************)
C6_FatalUnlessExcluded ==
    (folder_file_overwrite_error /\ pc # "start") =>
        /\ pc = "fatal" <=> \E p \in AllPaths : TypeConflict(p) /\ ~Covered(p)
        /\ pc # "fatal" =>
              \A p \in AllPaths :
                  (TypeConflict(p) /\ Matches(p) /\ ~AboveCovered(p)) =>
                      /\ TreeAt(trees.excluded_source, p) = SourceAt(p)
                      /\ ~HasEntry(trees.delete, p)
                      /\ ~HasEntry(trees.copy, p)

C6_Witness ==
    /\ folder_file_overwrite_error
    /\ pc = "delete"
    /\ \E p \in AllPaths : FileOverDir(p) /\ Matches(p) /\ ~AboveCovered(p)

(***************************************************************************)
(* C7: with force set a type conflict at a non-excluded path never aborts; *)
(* File over Dir selects the whole destination directory (self-entry and   *)
(* descendants) for delete and the source file for copy; Dir over File     *)
(* selects the destination file for delete and, for copy, the source       *)
(* directory's self-entry and every source descendant that is not excluded.*)
(***************************************************************************)
C7_ForcedConflict ==
    (force /\ pc # "start") =>
        /\ pc # "fatal"
        /\ \A p \in AllPaths :
              (TypeConflict(p) /\ ~Covered(p)) =>
                  /\ TreeAt(trees.delete, p) = DestinationAt(p)
                  /\ FileOverDir(p) => TreeAt(trees.copy, p) = SourceAt(p)
                  /\ DirOverFile(p) =>
                        \A q \in PathsOf(SourceAt(p), p) :
                            IF Covered(q) THEN ~HasEntry(trees.copy, q)
                            ELSE /\ TreeAt(trees.copy, q).kind = SourceAt(q).kind
                                 /\ TreeAt(trees.copy, q).st = SourceAt(q).st

C7_Witness ==
    /\ force
    /\ pc = "delete"
    /\ \E p \in AllPaths :
          /\ DirOverFile(p) /\ ~Covered(p)
          /\ \E q \in PathsOf(SourceAt(p), p) : Covered(q)
          /\ \E q \in PathsOf(SourceAt(p), p) \ {p} :
                ~Covered(q) /\ TreeAt(trees.copy, q) = SourceAt(q)

Mutating == {"unlink", "rmdir", "makedirs", "push", "utime"}

(***************************************************************************)
(* C2: in a dry run no mutating operation is issued on the destination.    *)
(***************************************************************************)
C2_DryRunIssuesNothing ==
    dry_run => \A i \in DOMAIN ops : ops[i].op \notin Mutating

(***************************************************************************)
(* C4: in a run without --dry-run and without --force, a File-versus-Dir   *)
(* mismatch at a non-excluded path ends the run inside diff_trees: no      *)
(* partition is returned and no operation is ever issued.                  *)
(***************************************************************************)
C4_UnforcedConflictAborts ==
    (~dry_run /\ ~force /\ pc # "start" /\
     \E p \in AllPaths : TypeConflict(p) /\ ~Covered(p))
    => /\ pc = "fatal"
       /\ trees = NoTrees
       /\ ops = <<>>
       /\ dfs = FsOf(files_tree_destination, path_destination)

C4_Witness ==
    /\ ~dry_run /\ ~force
    /\ pc = "fatal"
    /\ \E p \in AllPaths : FileOverDir(p) /\ ~Covered(p) /\ p # path_destination

(***************************************************************************)
(* C5 as stated: without --force a File-versus-Dir mismatch at a           *)
(* non-excluded path is fatal, in a dry run too.                           *)
(***************************************************************************)
C5_AsStated ==
    (~force /\ pc # "start" /\ \E p \in AllPaths : TypeConflict(p) /\ ~Covered(p))
    => pc = "fatal"

(***************************************************************************)
(* C5 amended: without --force the mismatch is fatal in every run that is  *)
(* not a dry run; in a dry run it is not fatal: diff_trees returns and the *)
(* conflicting path is classified for delete and copy.                     *)
(***************************************************************************)
C5_FatalUnlessDryRun ==
    (~force /\ pc # "start" /\ \E p \in AllPaths : TypeConflict(p) /\ ~Covered(p))
    => IF dry_run
       THEN \A p \in AllPaths :
               (TypeConflict(p) /\ ~Covered(p)) =>
                   /\ TreeAt(trees.delete, p) = DestinationAt(p)
                   /\ HasEntry(trees.copy, p)
       ELSE pc = "fatal" /\ trees = NoTrees

C5_Witness ==
    /\ dry_run /\ ~force
    /\ pc = "delete"
    /\ \E p \in AllPaths : TypeConflict(p) /\ ~Covered(p)

(***************************************************************************)
(* C8: when the transfer process of a leaf ends with a non-zero result the *)
(* run ends fatally: no setTimes for that file, the file is not counted,   *)
(* no later transfer.                                                      *)
(***************************************************************************)
C8_TransferFailureIsFatal ==
    \A i \in DOMAIN ops :
        (ops[i].op = "exited" /\ ops[i].arg # <<0>>) =>
            /\ pc = "fatal"
            /\ \A j \in DOMAIN ops : j > i => ops[j].op \notin {"utime", "push"}
            /\ copied_files =
                  Cardinality({j \in DOMAIN ops : ops[j].op = "exited" /\ ops[j].arg = <<0>>})

(***************************************************************************)
(* C9: after an interrupt during a transfer the transfer process has been  *)
(* killed, no partially written file is left on the destination, and the   *)
(* run has ended fatally without a further transfer.                       *)
(***************************************************************************)
C9_InterruptRemovesPartialFile ==
    \A i \in DOMAIN ops :
        ops[i].op = "kill" =>
            /\ pc = "fatal"
            /\ \A q \in DOMAIN dfs : dfs[q].kind # "partial"
            /\ \A j \in DOMAIN ops : j > i => ops[j].op # "push"

FailingChildren(node) ==
    {i \in DOMAIN node.entries : node.entries[i][2].raises \in Skipped}
SnapshotOf(side) ==
    IF side = "source" THEN files_tree_source ELSE files_tree_destination

(***************************************************************************)
(* C10: while a snapshot walks a directory, a child whose lstat fails with *)
(* FileNotFoundError, NotADirectoryError or PermissionError is skipped:    *)
(* the snapshot raises nothing, the program does not abort, and every      *)
(* other child of that directory is in the resulting tree.                 *)
(***************************************************************************)
C10_FailingChildSkipped ==
    \A side \in {"source", "destination"} :
        LET root == fsrc[side]
        IN (/\ built[side] # "unbuilt"
            /\ root.st_mode = "S_IFDIR"
            /\ FailingChildren(root) # {})
           => /\ built[side] = ""
              /\ pc \notin {"fatal", "crashed"}
              /\ IsDict(SnapshotOf(side))
              /\ \A i \in DOMAIN root.entries :
                    root.entries[i][2].st_mode = "S_IFREG"
                        => IsTuple(SnapshotOf(side).ch[root.entries[i][1]])

IsDirArg(node) == node.raises = "" /\ node.st_mode = "S_IFDIR"
IsRegArg(node) == node.raises = "" /\ node.st_mode = "S_IFREG"
TrailingSlash(arg) == arg # <<>> /\ arg[Len(arg)] = "/"
Literal(arg) == normpath(rstripSlash(arg))
Nested == normpath(join(rstripSlash(args_paths.destination),
                        basename(rstripSlash(args_paths.source))))

(***************************************************************************)
(* C11: once the roots are resolved, a source directory given with a       *)
(* trailing slash is synced into an existing destination directory         *)
(* literally; a source directory given without one, and a regular file,    *)
(* are synced to destination/basename(source); a destination that does not *)
(* exist or is not a directory is used literally.                          *)
(***************************************************************************)
C11_TrailingSlashSemantics ==
    (pc = "snapshot_source" /\ rstripSlash(args_paths.source) # <<>>)
        => /\ (IsDirArg(fsrc.destination) /\ IsDirArg(fsrc.source)
                  /\ TrailingSlash(args_paths.source))
                 => roots.destination = Literal(args_paths.destination)
           /\ (IsDirArg(fsrc.destination)
                  /\ \/ IsDirArg(fsrc.source) /\ ~TrailingSlash(args_paths.source)
                     \/ IsRegArg(fsrc.source))
                 => roots.destination = Nested
           /\ ~IsDirArg(fsrc.destination)
                 => roots.destination = Literal(args_paths.destination)

Replies == {calls.replies[j] : j \in DOMAIN calls.replies}
Stripped(lines) == [i \in DOMAIN lines |-> rstripCRLF(lines[i].text)]
PrintedBy(id) ==
    LET Printed(line) == line.cmd = id /\ ~line.echo
    IN Stripped(SelectSeq(channel.out, Printed))

(***************************************************************************)
(* C12: the shell channel never has two commands in flight.  Every command *)
(* written before another one has had its whole reply, through the         *)
(* sentinel, read; and a reply that ended with the sentinel is exactly     *)
(* what the device printed for that command.  This covers a listing        *)
(* started while the listing of the parent is being iterated, and lstat    *)
(* and realpath, which take one line only.                                 *)
(***************************************************************************)
C12_OneCommandInFlight ==
    pc = "shell" =>
        /\ \A i \in DOMAIN calls.written :
              i < Len(calls.written)
                  => \E r \in Replies : r.id = calls.written[i] /\ r.ended = "sentinel"
        /\ \A r \in Replies : r.ended = "sentinel" => r.lines = PrintedBy(r.id)

\* a listing was started inside the loop over its parent's listing, which has
\* lines left, after an lstat or realpath that took one line of two
C12_Witness ==
    /\ pc = "shell"
    /\ Len(calls.frames) = 2
    /\ calls.frames[1].taken < Len(calls.frames[1].lines)
    /\ calls.frames[2].complete
    /\ \E r \in Replies : r.kind \in {"lstat", "realpath"} /\ Len(r.lines) = 2
    /\ \E r \in Replies : r.id = calls.frames[2].id /\ r.ended = "sentinel"

(***************************************************************************)
(* C13: when the channel reaches end of stream before the sentinel was     *)
(* read, the command ends the program; the lines read so far are never     *)
(* returned as a reply.                                                    *)
(***************************************************************************)
C13_EndOfStreamIsFatal ==
    (\E r \in Replies : r.ended = "eof") => pc = "fatal"

(***************************************************************************)
(* C14: a reply that ended with the sentinel is exactly the lines read     *)
(* from the channel before the first line that equals the sentinel once    *)
(* its CR and LF are stripped; a line that holds the sentinel as a part is *)
(* in the reply, and nothing after the sentinel line is.                   *)
(***************************************************************************)
C14_ReplyUpToSentinel ==
    \A r \in Replies :
        r.ended = "sentinel" =>
            LET ends == {k \in DOMAIN channel.out :
                            /\ k > r.from
                            /\ rstripCRLF(channel.out[k].text) = ADBSYNC_END_OF_COMMAND}
                first == CHOOSE k \in ends : \A other \in ends : k <= other
            IN /\ ends # {}
               /\ r.lines = [i \in 1..(first - r.from - 1) |->
                                rstripCRLF(channel.out[r.from + i].text)]

\* a reply with a line that holds the sentinel as a part, on a channel whose
\* lines end with CR LF
C14_Witness ==
    \E r \in Replies :
        /\ r.ended = "sentinel"
        /\ channel.crlf
        /\ \E i \in DOMAIN r.lines :
              /\ r.lines[i] # ADBSYNC_END_OF_COMMAND
              /\ \E c \in DOMAIN r.lines[i] : r.lines[i][c] = "S"

(***************************************************************************)
(* C15: after pruning, no path has a file leaf or a self-entry both in     *)
(* copy and in excluded_source, nor both in unaccounted_destination and in *)
(* excluded_destination, nor in delete together with either of the two     *)
(* destination partitions.                                                 *)
(***************************************************************************)
C15_PartitionsExclusive ==
    Classified =>
        \A p \in AllPaths :
            /\ ~(HasEntry(trees.copy, p) /\ HasEntry(trees.excluded_source, p))
            /\ ~(HasEntry(trees.unaccounted_destination, p)
                     /\ HasEntry(trees.excluded_destination, p))
            /\ ~(HasEntry(trees.delete, p)
                     /\ (HasEntry(trees.unaccounted_destination, p)
                            \/ HasEntry(trees.excluded_destination, p)))

\* one classification that overwrites a path, excludes another on both sides
\* and forces a file over a directory
C15_Witness ==
    /\ Classified
    /\ force
    /\ \E p \in AllPaths : HasEntry(trees.delete, p) /\ HasEntry(trees.copy, p)
                              /\ FileOverDir(p)
    /\ \E p \in AllPaths : HasEntry(trees.excluded_source, p)
    /\ \E p \in AllPaths : HasEntry(trees.excluded_destination, p)

NonExcluded == trees.unaccounted_destination_non_excluded
HasSelf(tree, p) == IsDict(TreeAt(tree, p)) /\ TreeAt(tree, p).st # NoSelf

(***************************************************************************)
(* C16: where the pruned excluded_destination tree has a directory node,   *)
(* the tree remove_excluded_folders_from_unaccounted_tree returns has no   *)
(* self-entry, so remove_tree on it issues no rmdir for a directory with   *)
(* an excluded entry below it; where excluded_destination has no node, the *)
(* unaccounted entries are returned unchanged.                             *)
(***************************************************************************)
C16_ExcludedAncestorsKept ==
    Classified =>
        /\ \A p \in AllPaths :
              /\ IsDict(TreeAt(trees.excluded_destination, p)) => ~HasSelf(NonExcluded, p)
              /\ IsNone(TreeAt(trees.excluded_destination, p))
                    => TreeAt(NonExcluded, p) = TreeAt(trees.unaccounted_destination, p)
        /\ LET removed == remove_tree(path_destination, NonExcluded, FALSE)
           IN \A i \in DOMAIN removed :
                 removed[i].op = "rmdir"
                     => ~\E q \in AllPaths : /\ Under(removed[i].path, q)
                                             /\ HasEntry(trees.excluded_destination, q)

\* an unaccounted directory with a self-entry lies above an excluded entry,
\* next to an unaccounted file that is still offered for deletion
C16_Witness ==
    /\ Classified
    /\ \E p \in AllPaths :
          /\ HasSelf(trees.unaccounted_destination, p)
          /\ IsDict(TreeAt(trees.excluded_destination, p))
    /\ \E q \in AllPaths :
          /\ IsNone(TreeAt(trees.excluded_destination, q))
          /\ IsTuple(TreeAt(NonExcluded, q))

(***************************************************************************)
(* C17: diffing a tree against an equal copy of itself, under any list of  *)
(* exclusion patterns, gives delete and copy trees that prune to Absent.   *)
(***************************************************************************)
C17_DiffOfEqualTrees ==
    (pc # "start" /\ files_tree_source = files_tree_destination)
        => /\ pc # "fatal"
           /\ trees.delete = Absent
           /\ trees.copy = Absent

\* equal directory trees with a file two levels down, diffed with and
\* without exclusion patterns
C17_Witness ==
    /\ Classified
    /\ files_tree_source = files_tree_destination
    /\ IsDict(files_tree_source)
    /\ IsTuple(Child(Child(files_tree_source, "a"), "a"))
    /\ IsTuple(Child(files_tree_source, "b"))
    /\ args_exclude # <<>>

RECURSIVE Pruned(_)
\* a tuple, or a dict with a key whose values are all pruned and not None
Pruned(tree) ==
    \/ tree.t = "tuple"
    \/ /\ tree.t = "dict"
       /\ \E key \in Keys : tree.d[key] # NoKey
       /\ \A key \in Keys : tree.d[key] # NoKey => Pruned(tree.d[key])

(***************************************************************************)
(* C18: prune_tree(prune_tree(t)) = prune_tree(t), and prune_tree(t) is    *)
(* None, a file tuple, or a non-empty dict that holds no None at any       *)
(* depth.                                                                  *)
(***************************************************************************)
C18_PruneIdempotent ==
    /\ (pc = "prune" /\ Len(pruning.results) >= 1)
          => (pruning.results[1] = PyNone \/ Pruned(pruning.results[1]))
    /\ (pc = "prune" /\ Len(pruning.results) = 2)
          => pruning.results[2] = pruning.results[1]

\* a dict whose only content two levels down is None next to one that keeps
\* a file: pruning changed the tree and was applied twice
C18_Witness ==
    /\ pc = "prune"
    /\ Len(pruning.results) = 2
    /\ pruning.tree.t = "dict"
    /\ pruning.tree.d["a"].t = "dict"
    /\ pruning.tree.d["a"].d["a"] = PyNone
    /\ pruning.results[1] # pruning.tree
    /\ pruning.results[1].t = "dict"

(***************************************************************************)
(* C19: on a non-excluded File/File pair whose source modify time is       *)
(* strictly greater than the destination's, delete is the destination      *)
(* entry and copy the source entry, and the path is in none of             *)
(* excluded_source, unaccounted_destination and excluded_destination.      *)
(***************************************************************************)
C19_NewerSourceOverwrites ==
    Classified =>
        \A p \in AllPaths :
            (FilePair(p) /\ ~Covered(p) /\ SourceAt(p).st[2] > DestinationAt(p).st[2])
            => /\ TreeAt(trees.delete, p) = DestinationAt(p)
               /\ TreeAt(trees.copy, p) = SourceAt(p)
               /\ IsNone(TreeAt(trees.excluded_source, p))
               /\ IsNone(TreeAt(trees.unaccounted_destination, p))
               /\ IsNone(TreeAt(trees.excluded_destination, p))

\* a newer source file of the same size as the destination's, below the root
C19_Witness ==
    /\ Classified
    /\ \E p \in AllPaths :
          /\ p # path_destination
          /\ FilePair(p) /\ ~Covered(p)
          /\ SourceAt(p).st[2] > DestinationAt(p).st[2]
          /\ SourceAt(p).st[3] = DestinationAt(p).st[3]
          /\ TreeAt(trees.copy, p) = SourceAt(p)

(***************************************************************************)
(* C20: in a non-dry run every unlink and rmdir of the delete step (the    *)
(* delete tree, and the excluded and unaccounted trees under               *)
(* --delete-excluded and --del) is issued before the first makedirs,       *)
(* transfer or setTimes of the copy step.  The one unlink the copy step    *)
(* issues itself is the interrupt handler's, which directly follows the    *)
(* kill of the transfer it cleans up after.                                *)
(***************************************************************************)
CopyOps == {"makedirs", "push", "utime"}

DeleteOps == {"unlink", "rmdir"}

C20_DeletesBeforeCopies ==
    ~dry_run =>
        \A i \in DOMAIN ops : \A j \in DOMAIN ops :
            (i < j /\ ops[i].op \in CopyOps /\ ops[j].op \in DeleteOps)
                => ops[j - 1].op = "kill"

C20_Witness ==
    /\ ~dry_run
    /\ delete
    /\ pc = "done"
    /\ ~IsNone(trees.delete)
    /\ \E i \in DOMAIN ops : \E j \in DOMAIN ops : \E k \in DOMAIN ops :
          /\ i < j /\ j < k
          /\ ops[i].op \in DeleteOps
          /\ ops[j].op \in DeleteOps
          /\ ops[k].op = "push"

LinkChildren(node) ==
    {i \in DOMAIN node.entries : node.entries[i][2].st_mode = "S_IFLNK"}
PlainListing(node) ==
    \A i \in DOMAIN node.entries :
        /\ node.entries[i][2].raises = ""
        /\ node.entries[i][2].st_mode \in {"S_IFLNK", "S_IFREG"}

RemovedTrees ==
    {trees.delete}
        \cup (IF delete_excluded /\ delete
              THEN {trees.excluded_destination, trees.unaccounted_destination}
              ELSE IF delete_excluded THEN {trees.excluded_destination}
              ELSE IF delete THEN {trees.unaccounted_destination_non_excluded}
              ELSE {})
\* the positions of the log that remove_tree wrote: every unlink and rmdir
\* but the interrupt handler's unlink, which follows a kill
Removals ==
    {j \in DOMAIN ops : /\ ops[j].op \in DeleteOps
                        /\ (j > 1 => ops[j - 1].op # "kill")}

(***************************************************************************)
(* C22: remove_tree is post-order.  Nothing below a directory is removed   *)
(* after the rmdir of that directory; an rmdir is issued only for a        *)
(* directory node that carries a self-entry, and an unlink only for a file *)
(* leaf; in a dry run remove_tree issues no unlink and no rmdir.           *)
(***************************************************************************)
C22_RemoveTreePostOrder ==
    /\ \A i \in Removals : \A j \in Removals :
          (i < j /\ ops[i].op = "rmdir") => ~Under(ops[i].path, ops[j].path)
    /\ \A j \in Removals :
          \E t \in RemovedTrees :
             LET n == TreeAt(t, ops[j].path)
             IN IF ops[j].op = "rmdir" THEN IsDict(n) /\ n.st # NoSelf
                ELSE IsTuple(n)
    /\ dry_run => Removals = {}

C22_Witness ==
    /\ ~dry_run
    /\ pc = "copy"
    /\ \E i \in Removals : \E j \in Removals :
          /\ i < j
          /\ ops[j].op = "rmdir"
          /\ Under(ops[j].path, ops[i].path)
    /\ \E i \in Removals : \E p \in AllPaths :
          /\ Under(p, ops[i].path)
          /\ \E t \in RemovedTrees : IsDict(TreeAt(t, p)) /\ TreeAt(t, p).st = NoSelf
          /\ \A j \in Removals : ops[j].path # p

\* the directory nodes of the copy tree that carry a self-entry
CopiedDirs ==
    {p \in AllPaths : IsDict(TreeAt(trees.copy, p)) /\ TreeAt(trees.copy, p).st # NoSelf}

(***************************************************************************)
(* C23: push_tree_here is pre-order.  Before any transfer or makedirs      *)
(* below a directory of the copy tree that carries a self-entry, makedirs  *)
(* of that directory has been issued; utime of a file follows the exit of  *)
(* the transfer to the same path, which follows its start, and receives    *)
(* the leaf's (atime, mtime) without the size.                             *)
(***************************************************************************)
C23_PushTreePreOrder ==
    /\ \A j \in DOMAIN ops : \A p \in CopiedDirs :
          (ops[j].op \in {"push", "makedirs"} /\ Under(p, ops[j].path))
              => \E i \in 1..(j - 1) : ops[i].op = "makedirs" /\ ops[i].path = p
    /\ \A j \in DOMAIN ops :
          ops[j].op = "utime"
              => /\ j > 2
                 /\ ops[j - 1].op = "exited" /\ ops[j - 1].path = ops[j].path
                 /\ ops[j - 2].op = "push" /\ ops[j - 2].path = ops[j].path
                 /\ IsTuple(TreeAt(trees.copy, ops[j].path))
                 /\ LET st == TreeAt(trees.copy, ops[j].path).st
                    IN ops[j].arg = <<st[1], st[2]>>

C23_Witness ==
    /\ ~dry_run
    /\ pc = "done"
    /\ \E p \in CopiedDirs : \E i \in DOMAIN ops : \E j \in DOMAIN ops :
          /\ p # path_destination
          /\ i < j /\ j < Len(ops)
          /\ ops[i].op = "makedirs" /\ ops[i].path = p
          /\ ops[j].op = "push" /\ Under(p, ops[j].path)
          /\ ops[j + 2].op = "utime" /\ ops[j + 2].path = ops[j].path

(***************************************************************************)
(* The listing parser: AndroidFileSystem.ls_to_stat (Android.py 118-176),  *)
(* lstat (224-226) and lstat_in_dir (228-233) over the lines of a reply to *)
(* ls.  A line is the sequence of its fields, which single spaces          *)
(* separate; the timestamp "YYYY-MM-DD HH:MM" is one field and so is the   *)
(* text that ends an error line of ls.                                     *)
(***************************************************************************)
NoSuchFile == ": No such file or directory"
NotADir == ": Not a directory"
Denied == ": Permission denied"

\* the type marker a permission string starts with (Android.py 23-31); of the
\* seven markers the lines of the model use these four
TypeMarker ==
    [m \in {"-rw-r--r--", "drwxr-xr-x", "lrwxrwxrwx", "prw-r--r--"} |->
        IF m = "-rw-r--r--" THEN "S_IFREG"
        ELSE IF m = "drwxr-xr-x" THEN "S_IFDIR"
        ELSE IF m = "lrwxrwxrwx" THEN "S_IFLNK"
        ELSE "S_IFIFO"]
\* [0-9]+ and int()
IntOf == [n \in {"1", "2"} |-> IF n = "1" THEN 1 ELSE 2]
\* [0-9]{4}-[0-9]{2}-[0-9]{2} [0-9]{2}:[0-9]{2} and strptime(...).timestamp()
TimestampOf ==
    [d \in {"1970-01-01 00:01", "1970-01-01 00:02"} |->
        IF d = "1970-01-01 00:01" THEN 60 ELSE 120]
\* [^ ]+ : a field without a space in it
Spaceless(field) == field \notin DOMAIN TimestampOf \cup {NoSuchFile, NotADir, Denied}

\* ^.*: No such file or directory$
RE_NO_SUCH_FILE(line) == line # <<>> /\ line[Len(line)] = NoSuchFile
\* ls: .*: Not a directory$
RE_LS_NOT_A_DIRECTORY(line) ==
    Len(line) >= 2 /\ line[1] = "ls:" /\ line[Len(line)] = NotADir
\* ^total \d+$
RE_TOTAL(line) == Len(line) = 2 /\ line[1] = "total" /\ line[2] \in DOMAIN IntOf

\* RE_LS_TO_STAT (Android.py 21-63): where the timestamp stands once the
\* optional link count (links = 1) and the size, link length or optional
\* directory size (sized = 1) are taken; 0 when the line does not match
DateAt(line, links, sized) ==
    LET at == 4 + links + sized
        type == TypeMarker[line[1]]
    IN IF /\ Len(line) > at
          /\ (links = 1 => line[2] \in DOMAIN IntOf)
          /\ Spaceless(line[2 + links]) /\ Spaceless(line[3 + links])
          /\ (sized = 1 => line[at - 1] \in DOMAIN IntOf)
          /\ (type \in {"S_IFREG", "S_IFLNK"} => sized = 1)
          /\ (type = "S_IFIFO" => sized = 0)
          /\ line[at] \in DOMAIN TimestampOf
       THEN at ELSE 0

NoMatch == [matched |-> FALSE, S_IF |-> "", st_size |-> 0, st_mtime |-> 0, filename |-> <<>>]

\* the groups of the first match the regular expression finds: the optional
\* parts are tried present before absent
RE_LS_TO_STAT(line) ==
    IF line = <<>> \/ Head(line) \notin DOMAIN TypeMarker THEN NoMatch
    ELSE LET at == IF DateAt(line, 1, 1) # 0 THEN DateAt(line, 1, 1)
                   ELSE IF DateAt(line, 1, 0) # 0 THEN DateAt(line, 1, 0)
                   ELSE IF DateAt(line, 0, 1) # 0 THEN DateAt(line, 0, 1)
                   ELSE DateAt(line, 0, 0)
             type == TypeMarker[line[1]]
         IN IF at = 0 THEN NoMatch
            ELSE [matched |-> TRUE,
                  S_IF |-> type,
                  st_size |-> IF type = "S_IFREG" THEN IntOf[line[at - 1]] ELSE 0,
                  st_mtime |-> TimestampOf[line[at]],
                  filename |-> IF type = "S_IFLNK" THEN <<>>
                               ELSE SubSeq(line, at + 1, Len(line))]

\* what a call makes of a line
Outcome(kind, filename, node) == [kind |-> kind, filename |-> filename, st |-> node]
NoStat == LstatRaises("")

\* a variant that tries the long-format grammar before the error lines
ls_to_stat_GrammarFirst(line) ==
    LET match == RE_LS_TO_STAT(line)
    IN IF match.matched
       THEN Outcome("entry", match.filename,
                    Node(match.S_IF, match.st_mtime, match.st_size, <<>>, ""))
       ELSE IF RE_NO_SUCH_FILE(line) THEN Outcome("FileNotFoundError", <<>>, NoStat)
       ELSE IF RE_LS_NOT_A_DIRECTORY(line) THEN Outcome("NotADirectoryError", <<>>, NoStat)
       ELSE Outcome("SystemExit", <<>>, NoStat)

\* Android.py 118-176; line_not_captured (103-105) ends the program
ls_to_stat(line) ==
    IF RE_NO_SUCH_FILE(line) THEN Outcome("FileNotFoundError", <<>>, NoStat)
    ELSE IF RE_LS_NOT_A_DIRECTORY(line) THEN Outcome("NotADirectoryError", <<>>, NoStat)
    ELSE LET match == RE_LS_TO_STAT(line)
         IN IF match.matched
            THEN Outcome("entry", match.filename,
                         Node(match.S_IF, match.st_mtime, match.st_size, <<>>, ""))
            ELSE Outcome("SystemExit", <<>>, NoStat)

\* the lines ls is given to print in the model
LsNames == { <<"a">>, <<"a", "b">>, <<"a", NoSuchFile>> }
LsEntryLines ==
    { <<m>> \o nlink \o <<"root", "root">> \o size \o <<d>> \o name :
        m \in DOMAIN TypeMarker, nlink \in {<<>>, <<"1">>}, size \in {<<>>, <<"2">>},
        d \in DOMAIN TimestampOf, name \in LsNames }
LsOtherLines ==
    { <<"total", "2">>, <<"total", "a">>, <<"total">>,
      <<"ls:", "/s", NoSuchFile>>, <<"/s", NoSuchFile>>, <<NoSuchFile>>,
      <<"ls:", "/s", NotADir>>, <<"/s", NotADir>>,
      <<"ls:", "/s", Denied>>, <<"a">> }
LsLines == LsEntryLines \cup LsOtherLines
LsFirstLines ==
    { <<"total", "2">>, <<"drwxr-xr-x", "1", "root", "root", "2", "1970-01-01 00:01", "a">> }
LsReplies ==
    { <<>> } \cup { <<l>> : l \in LsLines }
        \cup { <<k, l>> : k \in LsFirstLines, l \in LsLines }

\* listing: the command, the lines of its reply still unread, what the call
\* has yielded, and the last line read with what became of it
InitLs ==
    /\ files_tree_source = Absent
    /\ files_tree_destination = Absent
    /\ args_exclude = <<>>
    /\ dry_run = FALSE
    /\ force = FALSE
    /\ delete = FALSE
    /\ delete_excluded = FALSE
    /\ direction = "pull"
    /\ pc = "ls"
    /\ trees = NoTrees
    /\ ops = <<>>
    /\ dfs = <<>>
    /\ todo = <<>>
    /\ copied_files = 0
    /\ args_paths = [source |-> path_source, destination |-> path_destination]
    /\ roots = args_paths
    /\ channel = <<>>
    /\ calls = <<>>
    /\ pruning = <<>>
    /\ copy_links = FALSE
    /\ fsrc = <<>>
    /\ built = <<>>
    /\ \E command \in {"ls -la", "ls -lad"}, reply \in LsReplies :
          listing = [command |-> command, lines |-> reply, yielded |-> <<>>,
                     last |-> <<>>]
    /\ walk = <<>>

LsUnchanged ==
    UNCHANGED <<files_tree_source, files_tree_destination, args_exclude, dry_run, force,
                delete, delete_excluded, direction, trees, ops, dfs, todo, copied_files,
                args_paths, roots, channel, calls, pruning, copy_links, fsrc, built, walk>>

\* lstat_in_dir, Android.py 228-233: one turn of its loop
LstatInDirLine ==
    /\ pc = "ls"
    /\ listing.command = "ls -la"
    /\ listing.lines # <<>>
    /\ LET line == Head(listing.lines)
           out == IF RE_TOTAL(line) THEN Outcome("skip", <<>>, NoStat)
                  ELSE ls_to_stat(line)
       IN /\ listing' = [listing EXCEPT
                            !.lines = Tail(@),
                            !.yielded = IF out.kind = "entry" THEN Append(@, out) ELSE @,
                            !.last = << <<line, out>> >>]
          /\ pc' = IF out.kind \in {"entry", "skip"} THEN "ls" ELSE out.kind
    /\ LsUnchanged

\* lstat_in_dir: the reply is exhausted and the generator ends
LstatInDirEnd ==
    /\ pc = "ls"
    /\ listing.command = "ls -la"
    /\ listing.lines = <<>>
    /\ pc' = "listed"
    /\ UNCHANGED listing
    /\ LsUnchanged

\* lstat, Android.py 224-226: the first line decides; without a line the
\* loop ends and the method returns None
Lstat ==
    /\ pc = "ls"
    /\ listing.command = "ls -lad"
    /\ IF listing.lines = <<>>
       THEN /\ pc' = "returned"
            /\ UNCHANGED listing
       ELSE LET line == Head(listing.lines)
                out == ls_to_stat(line)
            IN /\ listing' = [listing EXCEPT
                                 !.lines = Tail(@),
                                 !.yielded = IF out.kind = "entry" THEN Append(@, out) ELSE @,
                                 !.last = << <<line, out>> >>]
               /\ pc' = IF out.kind = "entry" THEN "returned" ELSE out.kind
    /\ LsUnchanged

NextLs ==
    \/ LstatInDirLine
    \/ LstatInDirEnd
    \/ Lstat

SpecLs == InitLs /\ [][NextLs]_vars

\* the last line a call read, and what became of it
Parsed == listing.last # <<>>
LastLine == listing.last[1][1]
LastOutcome == listing.last[1][2]
EndsWith(line, text) == line # <<>> /\ line[Len(line)] = text

(***************************************************************************)
(* C24: the parser decides a line in this order.  A line ending in         *)
(* ": No such file or directory" raises FileNotFoundError; otherwise a     *)
(* line "ls: ...: Not a directory" raises NotADirectoryError; otherwise a  *)
(* "total N" header in a directory listing is skipped and yields nothing;  *)
(* otherwise a line of the long format yields its name and metadata; any   *)
(* other line ends the program.  A not-found line never ends the program.  *)
(***************************************************************************)
C24_ParserShortCircuits ==
    Parsed =>
        LET line == LastLine
            out == LastOutcome
        IN /\ IF EndsWith(line, NoSuchFile) THEN out.kind = "FileNotFoundError"
              ELSE IF line[1] = "ls:" /\ EndsWith(line, NotADir)
              THEN out.kind = "NotADirectoryError"
              ELSE IF listing.command = "ls -la" /\ RE_TOTAL(line)
              THEN out.kind = "skip"
              ELSE IF RE_LS_TO_STAT(line).matched
              THEN /\ out.kind = "entry"
                   /\ out.filename = RE_LS_TO_STAT(line).filename
                   /\ out.st.st_mode = TypeMarker[line[1]]
                   /\ listing.yielded # <<>>
                   /\ listing.yielded[Len(listing.yielded)] = out
              ELSE out.kind = "SystemExit"
           /\ out.kind # "entry" =>
                 \A i \in DOMAIN listing.yielded : listing.yielded[i] # out
           /\ (pc = "SystemExit") = (out.kind = "SystemExit")

C24_Witness ==
    /\ Parsed
    /\ EndsWith(LastLine, NoSuchFile)
    /\ RE_LS_TO_STAT(LastLine).matched
    /\ pc = "FileNotFoundError"
    /\ Len(listing.yielded) = 1

(***************************************************************************)
(* Runs without --del and --delete-excluded that are not dry runs, over    *)
(* older, equal and newer sources of equal and of different size.          *)
(***************************************************************************)
InitNoDelete ==
    /\ \E e \in FileEntries : files_tree_source \in TreesOver(e)
    /\ \E m \in 0..MaxMinute : files_tree_destination \in TreesOver(Stat(m, 1))
    /\ args_exclude \in RunExcludeArgs
    /\ dry_run = FALSE
    /\ delete = FALSE
    /\ delete_excluded = FALSE
    /\ direction \in {"push", "pull"}
    /\ InitCommon

SpecNoDelete == InitNoDelete /\ [][Next]_vars

\* a path of the destination snapshot that the run has removed: it is gone
\* from the destination, or remove_tree has issued its removal
Removed(p) ==
    /\ ~IsNone(DestinationAt(p))
    /\ \/ p \notin DOMAIN dfs
       \/ \E j \in Removals : ops[j].path = p
InDeleteTree(p) == \E q \in Ancestors(p) : HasEntry(trees.delete, q)
Newer(p) == FilePair(p) /\ SourceAt(p).st[2] > DestinationAt(p).st[2]
SizeDiffers(p) == FilePair(p) /\ SourceAt(p).st[3] # DestinationAt(p).st[3]
NoDeleteRun == ~dry_run /\ ~delete /\ ~delete_excluded /\ Classified

\* the delete tree holds destination files whose source file is selected
\* for copy, and what lies at and below a forced type conflict
DeleteTreeIsJustified ==
    \A p \in AllPaths :
        HasEntry(trees.delete, p)
            => \/ FilePair(p) /\ TreeAt(trees.copy, p) = SourceAt(p)
               \/ force /\ \E q \in Ancestors(p) : TypeConflict(q)

(***************************************************************************)
(* C25 as stated: without --del and --delete-excluded a non-dry run        *)
(* removes a destination path only if it belongs to the delete tree; the   *)
(* delete tree holds only destination files whose source file is selected  *)
(* for copy and, under a forced type conflict, the conflicting entry and    *)
(* what lies below it; and a destination path that has, at itself and at    *)
(* every path above it, no type-conflicting and no newer source is never    *)
(* removed.                                                                *)
(***************************************************************************)
C25_AsStated ==
    NoDeleteRun =>
        /\ \A p \in AllPaths : Removed(p) => InDeleteTree(p)
        /\ DeleteTreeIsJustified
        /\ \A p \in AllPaths :
              Removed(p) => \E q \in Ancestors(p) : TypeConflict(q) \/ Newer(q)

(***************************************************************************)
(* C25 amended: the same, but the destination paths that are never removed *)
(* are those that have, at themselves and above, no type-conflicting       *)
(* source, no newer source file and no source file of a different size.    *)
(***************************************************************************)
C25_RemovedOnlyIfReplaced ==
    NoDeleteRun =>
        /\ \A p \in AllPaths : Removed(p) => InDeleteTree(p)
        /\ DeleteTreeIsJustified
        /\ \A p \in AllPaths :
              Removed(p) => \E q \in Ancestors(p) :
                               TypeConflict(q) \/ Newer(q) \/ SizeDiffers(q)

C25_Witness ==
    /\ NoDeleteRun
    /\ pc = "done"
    /\ \E p \in AllPaths :
          /\ Removed(p)
          /\ SizeDiffers(p) /\ ~Newer(p)
          /\ \A q \in Ancestors(p) : ~TypeConflict(q)
    /\ \E p \in AllPaths : ~IsNone(DestinationAt(p)) /\ ~Removed(p)

(***************************************************************************)
(* C26: once remove_tree has run over the delete tree in a non-dry run     *)
(* whose destination is the Android filesystem, no file leaf of that tree  *)
(* and no directory of it that carries a self-entry exists on the device   *)
(* any more.                                                               *)
(***************************************************************************)
C26_RemoteRemoveTreeEffective ==
    (~dry_run /\ ~DestinationIsLocal(direction) /\ pc = "delete_more")
        => \A p \in AllPaths : HasEntry(trees.delete, p) => p \notin DOMAIN dfs

\* diff_trees is called for p: above p it descended through directories,
\* none of them excluded and none under a file
Reached(p) ==
    /\ Classified
    /\ ~AboveCovered(p)
    /\ \A q \in Ancestors(p) \ {p} : ~TypeConflict(q)

(***************************************************************************)
(* C27: every destination entry that diff_trees reaches at an excluded     *)
(* path is recorded in excluded_destination, whatever the source holds at  *)
(* that path (nothing, a file or a directory).                             *)
(***************************************************************************)
C27_ExcludedDestinationRecorded ==
    \A p \in AllPaths :
        (Reached(p) /\ Matches(p) /\ ~IsNone(DestinationAt(p)))
            => TreeAt(trees.excluded_destination, p) = prune_tree(DestinationAt(p))

\* every transfer of the run so far has exited with code 0
TransfersSucceeded ==
    \A j \in DOMAIN ops : ops[j].op = "exited" => ops[j].arg = <<0>>

(***************************************************************************)
(* C28: when the pruned copy tree is a single file leaf, a non-dry run     *)
(* issues no makedirs for the destination path itself, and once the run    *)
(* has finished with its transfer successful the destination path is a     *)
(* regular file.                                                           *)
(***************************************************************************)
C28_SingleFileNoMakedirs ==
    (~dry_run /\ Classified /\ IsTuple(trees.copy))
        => /\ \A j \in DOMAIN ops :
                 ~(ops[j].op = "makedirs" /\ ops[j].path = path_destination)
           /\ (pc = "done" /\ TransfersSucceeded)
                 => /\ path_destination \in DOMAIN dfs
                    /\ dfs[path_destination].kind = "reg"

\* get_files_tree (Base.py 33-90) over the destination as the run left it.
\* Entries under other names than the source's (a file that a transfer
\* placed inside a directory, under the source's base name) exist on the
\* destination only and reach neither the delete nor the copy tree.
RECURSIVE SnapshotOfFs(_, _)
SnapshotOfFs(fs, path) ==
    IF path \notin DOMAIN fs THEN Absent
    ELSE IF fs[path].kind = "dir"
    THEN Dir(<<fs[path].st[1], fs[path].st[2], 0>>,
             [k \in NameSet |-> SnapshotOfFs(fs, join(path, <<k>>))])
    ELSE File(fs[path].st)

\* the classification of a second run with the same arguments
SecondDiff ==
    diff_trees(files_tree_source, SnapshotOfFs(dfs, path_destination), path_destination,
               excludePatterns, folder_file_overwrite_error)

\* a run that has finished, was not a dry run and whose transfers all succeeded
SuccessfulRun == ~dry_run /\ pc = "done" /\ TransfersSucceeded

RecursionLimit == 4

WalkEntry(mode, target) ==
    [st_mode |-> mode, st_mtime |-> 60, st_size |-> 1, target |-> target]
WalkFs(entries) ==
    [q \in {e[1] : e \in entries} |-> (CHOOSE e \in entries : e[1] = q)[2]]

WalkA == join(path_source, <<"a">>)
WalkB == join(path_source, <<"b">>)
WalkAA == join(WalkA, <<"a">>)
WalkMissing == join(path_source, <<"x">>)

\* what the directory holds under a, and under b
WalkChoicesA ==
    { {<<WalkA, WalkEntry("S_IFREG", <<>>)>>},
      {<<WalkA, WalkEntry("S_IFDIR", <<>>)>>, <<WalkAA, WalkEntry("S_IFREG", <<>>)>>},
      {<<WalkA, WalkEntry("S_IFDIR", <<>>)>>, <<WalkAA, WalkEntry("S_IFLNK", path_source)>>},
      {<<WalkA, WalkEntry("S_IFDIR", <<>>)>>, <<WalkAA, WalkEntry("S_IFLNK", WalkB)>>},
      {<<WalkA, WalkEntry("S_IFLNK", path_source)>>},
      {<<WalkA, WalkEntry("S_IFLNK", WalkB)>>},
      {<<WalkA, WalkEntry("S_IFLNK", WalkMissing)>>} }
WalkChoicesB ==
    { {},
      {<<WalkB, WalkEntry("S_IFREG", <<>>)>>},
      {<<WalkB, WalkEntry("S_IFDIR", <<>>)>>} }
WalkFilesystems ==
    { WalkFs({}), WalkFs({<<path_source, WalkEntry("S_IFREG", <<>>)>>}) }
        \cup { WalkFs({<<path_source, WalkEntry("S_IFDIR", <<>>)>>} \cup a \cup b) :
                  a \in WalkChoicesA, b \in WalkChoicesB }

\* os.listdir, in the order of the names
RECURSIVE listdir(_, _, _)
listdir(fs, path, i) ==
    IF i > Len(Names) THEN <<>>
    ELSE (IF join(path, <<Names[i]>>) \in DOMAIN fs THEN <<Names[i]>> ELSE <<>>)
         \o listdir(fs, path, i + 1)

\* _get_files_tree(tree_path, lstat(tree_path)) up to the loop over a
\* directory (Base.py 38-60) or to its return (73-86)
RECURSIVE EnterTree(_, _, _, _)
EnterTree(w, fs, tree_path, follow_links) ==
    LET stat == fs[tree_path]
    IN IF stat.st_mode = "S_IFLNK"
       THEN IF ~follow_links THEN w
            ELSE IF stat.target \notin DOMAIN fs THEN w
            ELSE EnterTree(w, fs, stat.target, follow_links)
       ELSE IF stat.st_mode = "S_IFDIR"
       THEN IF Len(w.stack) >= RecursionLimit
            THEN [w EXCEPT !.raised = "RecursionError"]
            ELSE [w EXCEPT !.stack = <<[path |-> tree_path,
                                        left |-> listdir(fs, tree_path, 1)]>> \o @]
       ELSE [w EXCEPT !.files = @ + 1]

InitWalk ==
    /\ files_tree_source = Absent
    /\ files_tree_destination = Absent
    /\ args_exclude = <<>>
    /\ dry_run = FALSE
    /\ force = FALSE
    /\ delete = FALSE
    /\ delete_excluded = FALSE
    /\ direction = "push"
    /\ pc = "snapshot_source"
    /\ trees = NoTrees
    /\ ops = <<>>
    /\ dfs = <<>>
    /\ todo = <<>>
    /\ copied_files = 0
    /\ args_paths = [source |-> path_source, destination |-> path_destination]
    /\ roots = args_paths
    /\ channel = <<>>
    /\ calls = <<>>
    /\ pruning = <<>>
    /\ copy_links \in BOOLEAN
    /\ fsrc \in WalkFilesystems
    /\ built = <<>>
    /\ listing = <<>>
    /\ walk = [stack |-> <<>>, files |-> 0, raised |-> ""]

WalkUnchanged ==
    UNCHANGED <<files_tree_source, files_tree_destination, args_exclude, dry_run, force,
                delete, delete_excluded, direction, trees, ops, dfs, todo, copied_files,
                args_paths, roots, channel, calls, pruning, copy_links, fsrc, built,
                listing>>

\* where main() is once a call has been entered
AfterEnter(w) ==
    IF w.raised # "" THEN "crashed"
    ELSE IF w.stack = <<>> THEN "walked"
    ELSE "walking"

\* get_files_tree, Base.py 88-90, called by main (line 456)
WalkRoot ==
    /\ pc = "snapshot_source"
    /\ IF path_source \notin DOMAIN fsrc
       THEN /\ walk' = [walk EXCEPT !.raised = "FileNotFoundError"]
            /\ pc' = "fatal"
       ELSE LET w == EnterTree(walk, fsrc, path_source, copy_links)
            IN /\ walk' = w
               /\ pc' = AfterEnter(w)
    /\ WalkUnchanged

\* one turn of the loop over lstat_in_dir, Base.py 61-71
WalkChild ==
    /\ pc = "walking"
    /\ Head(walk.stack).left # <<>>
    /\ LET top == Head(walk.stack)
           filename == Head(top.left)
           rest == [walk EXCEPT !.stack = <<[top EXCEPT !.left = Tail(@)]>> \o Tail(@)]
           w == EnterTree(rest, fsrc, join(top.path, <<filename>>), copy_links)
       IN /\ walk' = w
          /\ pc' = AfterEnter(w)
    /\ WalkUnchanged

\* the loop is over: return tree, Base.py 72
WalkReturn ==
    /\ pc = "walking"
    /\ Head(walk.stack).left = <<>>
    /\ walk' = [walk EXCEPT !.stack = Tail(@)]
    /\ pc' = IF Tail(walk.stack) = <<>> THEN "walked" ELSE "walking"
    /\ WalkUnchanged

NextWalk ==
    \/ WalkRoot
    \/ WalkChild
    \/ WalkReturn

\* the program is one thread that keeps running
SpecWalk == InitWalk /\ [][NextWalk]_vars /\ WF_vars(NextWalk)

(***************************************************************************)
(* C30: the snapshot walk of a finite filesystem ends, with follow_links   *)
(* set or not: it returns a tree or fails with an error of the filesystem, *)
(* also when a followed symlink points to a directory above it, and does   *)
(* not recurse until the interpreter gives up.                             *)
(***************************************************************************)
C30_WalkTerminates == <>(pc \in {"walked", "fatal"})

====
